---- MODULE Spec2Model ----
(***************************************************************************)
(* The layer stack, the asynchronous history snapshots and the crop tool   *)
(* of the Luma-AI editor (the App component and utils/imageUtils).         *)
(*                                                                         *)
(* The App component keeps one AppState record (`state`) and a number of   *)
(* independent useState/useRef cells.  Every event handler runs to         *)
(* completion on the state of the render it was created in; a handler that *)
(* awaits (cropImage, applyAdjustments) or attaches a .then                *)
(* (captureHistorySnapshot) continues later, in a separate step, with the  *)
(* values it closed over.  JS numbers that take part in a division are     *)
(* modelled as exact fractions <<n, d>>.                                   *)
(***************************************************************************)
EXTENDS Integers, Sequences, FiniteSets, TLC

(***************************************************************************)
(* Bounds of the model.                                                    *)
(***************************************************************************)
MaxLayers == 3
MaxHistory == 3
MaxPending == 2
MaxTasks == 1
MaxClock == 1
MaxDrag == 1
MaxImageDepth == 2
MaxStrokes == 2
MaxPan == 5

(***************************************************************************)
(* JS numbers as fractions in lowest terms with a positive denominator.    *)
(***************************************************************************)
Abs(n) == IF n < 0 THEN -n ELSE n

RECURSIVE GCD(_, _)
GCD(a, b) == IF b = 0 THEN a ELSE GCD(b, a % b)

Rat(n, d) ==
    LET g == GCD(Abs(n), Abs(d))
        s == IF d < 0 THEN -1 ELSE 1
    IN  <<(s * n) \div g, (s * d) \div g>>

Num(n) == <<n, 1>>

RatAdd(p, q) == Rat(p[1] * q[2] + q[1] * p[2], p[2] * q[2])

RatSub(p, q) == Rat(p[1] * q[2] - q[1] * p[2], p[2] * q[2])

RatMul(p, q) == Rat(p[1] * q[1], p[2] * q[2])

RatDiv(p, q) == Rat(p[1] * q[2], p[2] * q[1])

RatLess(p, q) == p[1] * q[2] < q[1] * p[2]

RatAbs(p) == <<Abs(p[1]), p[2]>>

(***************************************************************************)
(* Values.  An image (a data URI) is a tagged tuple: an uploaded file, the *)
(* output of cropImage, of applyAdjustments or of composeLayers.           *)
(***************************************************************************)
NoImage == <<"null">>

NoLayerId == <<>>

NoMessage == "null"

NoDimensions == [null |-> TRUE]

NoSelection == [null |-> TRUE]

DataUris == {<<"data", "A">>}

LayerUris == {<<"data", "B">>}

(***************************************************************************)
(* A file that is read as a data URI but is not a decodable image, and     *)
(* loadImage: img.onload resolves, img.onerror rejects.  The PNGs the      *)
(* canvas produces (crops, adjustments, composites) decode.                *)
(***************************************************************************)
BrokenUris == {<<"data", "X">>}

Decodes(src) == src \notin BrokenUris

Modes == {"GENERATE", "EDIT", "ANALYZE"}

RECURSIVE ImageDepth(_)
ImageDepth(img) ==
    IF img[1] \in {"crop", "adjust"} THEN 1 + ImageDepth(img[2]) ELSE 0

VARIABLES
    state,            \* the AppState record
    showLayersPanel,
    showAdjustments,
    showBrushTools,
    brushCanvas,      \* the strokes on the brush canvas (0: blank)
    isDrawing,
    showCropTools,
    showTextTools,
    cropSelection,
    isSelectingCrop,
    cropStartRef,
    imageDimensions,
    zoom,
    pan,
    isDragging,
    isDraggingLayer,
    dragStart,
    pending,          \* composeLayers promises of captureHistorySnapshot not yet resolved
    tasks,            \* async handlers suspended at their await
    now               \* Date.now()

vars == <<state, showLayersPanel, showAdjustments, showBrushTools, brushCanvas,
          isDrawing, showCropTools,
          showTextTools, cropSelection, isSelectingCrop, cropStartRef,
          imageDimensions, zoom, pan, isDragging, isDraggingLayer, dragStart,
          pending, tasks, now>>

brushVars == <<showBrushTools, brushCanvas, isDrawing>>

toolVars == <<showAdjustments, brushVars, showCropTools, showTextTools>>

cropVars == <<cropSelection, isSelectingCrop, cropStartRef>>

viewVars == <<zoom, pan, isDragging, dragStart>>

editingTextId == NoLayerId

Init ==
    /\ state = [mode |-> "GENERATE",
                status |-> "idle",
                layers |-> <<>>,
                activeLayerId |-> NoLayerId,
                uploadedImage |-> NoImage,
                resultImage |-> NoImage,
                prompt |-> "",
                errorMessage |-> NoMessage,
                editHistory |-> <<>>,
                currentHistoryIndex |-> -1]
    /\ showLayersPanel = FALSE
    /\ showAdjustments = FALSE
    /\ showBrushTools = FALSE
    /\ brushCanvas = 0
    /\ isDrawing = FALSE
    /\ showCropTools = FALSE
    /\ showTextTools = FALSE
    /\ cropSelection = NoSelection
    /\ isSelectingCrop = FALSE
    /\ cropStartRef = [x |-> Num(0), y |-> Num(0)]
    /\ imageDimensions = NoDimensions
    /\ zoom = Num(1)
    /\ pan = [x |-> Num(0), y |-> Num(0)]
    /\ isDragging = FALSE
    /\ isDraggingLayer = FALSE
    /\ dragStart = [x |-> Num(0), y |-> Num(0)]
    /\ pending = <<>>
    /\ tasks = <<>>
    /\ now = 0

(***************************************************************************)
(* Date.now() never goes back: a handler that reads the clock reads the    *)
(* value last read (the same millisecond) or a later one.                  *)
(***************************************************************************)
ClockReads == {t \in now..(now + 1) : t <= MaxClock}

(***************************************************************************)
(* Sequence helpers: Array.prototype.slice / splice, object spread.         *)
(***************************************************************************)
Slice(s, from, to) ==
    LET a == IF from < 0 THEN 0 ELSE IF from > Len(s) THEN Len(s) ELSE from
        b == IF to < 0 THEN 0 ELSE IF to > Len(s) THEN Len(s) ELSE to
    IN  SubSeq(s, a + 1, b)

RemoveAt(s, i) == SubSeq(s, 1, i - 1) \o SubSeq(s, i + 1, Len(s))

InsertAt(s, i, e) == SubSeq(s, 1, i - 1) \o <<e>> \o SubSeq(s, i, Len(s))

Merge(l, u) ==
    [k \in (DOMAIN l) \cup (DOMAIN u) |-> IF k \in DOMAIN u THEN u[k] ELSE l[k]]

(***************************************************************************)
(* JSON.parse(JSON.stringify(layers)): every layer is rebuilt key by key.  *)
(* No handler stores undefined, NaN or a function in a layer, so no key is *)
(* dropped or rewritten by the round trip.                                 *)
(***************************************************************************)
JsonCopyLayer(l) == [k \in DOMAIN l |-> l[k]]

JsonCopy(ls) == [i \in 1..Len(ls) |-> JsonCopyLayer(ls[i])]

(***************************************************************************)
(* Pixel sizes.  An uploaded file has a fixed natural size; cropImage      *)
(* sizes its canvas by the crop rectangle (canvas sizes are integers),     *)
(* applyAdjustments keeps the size, composeLayers uses the size it is      *)
(* given.                                                                  *)
(***************************************************************************)
Floor(p) == p[1] \div p[2]

RECURSIVE ImageSize(_)
ImageSize(img) ==
    CASE img[1] = "data" -> [w |-> 120, h |-> 120]
      [] img[1] = "crop" -> [w |-> Floor(img[3].width), h |-> Floor(img[3].height)]
      [] img[1] = "adjust" -> ImageSize(img[2])
      [] img[1] = "composite" -> [w |-> img[3], h |-> img[4]]
      [] OTHER -> [w |-> 0, h |-> 0]

(***************************************************************************)
(* The layers the handlers build.                                          *)
(***************************************************************************)
BaseLayerId == <<"layer-base">>

LayerId(prefix, t) == <<prefix, t>>

BaseLayer(dataUri) ==
    [id |-> BaseLayerId, type |-> "image", name |-> "Background",
     visible |-> TRUE, locked |-> TRUE, opacity |-> 100, src |-> dataUri,
     x |-> Num(0), y |-> Num(0), rotation |-> 0, scale |-> Num(1)]

ImageLayer(dataUri, t, n) ==
    [id |-> LayerId("layer", t), type |-> "image", name |-> <<"Image", n>>,
     visible |-> TRUE, locked |-> FALSE, opacity |-> 100, src |-> dataUri,
     x |-> Num(50), y |-> Num(50), rotation |-> 0, scale |-> Rat(1, 2),
     width |-> 300, height |-> 300]

TextLayer(t) ==
    [id |-> LayerId("text", t), type |-> "text", name |-> "Text Layer",
     visible |-> TRUE, locked |-> FALSE, opacity |-> 100,
     text |-> "Double click to edit",
     x |-> Num(50), y |-> Num(50), rotation |-> 0, scale |-> Num(1),
     fontSize |-> 32, color |-> "#ffffff", fontFamily |-> "Inter",
     fontWeight |-> "bold"]

(***************************************************************************)
(* state.layers.find(l => l.id === id)                                     *)
(***************************************************************************)
HasLayer(ls, id) == \E i \in 1..Len(ls) : ls[i].id = id

FindLayer(ls, id) ==
    ls[CHOOSE i \in 1..Len(ls) : ls[i].id = id /\ \A j \in 1..(i - 1) : ls[j].id # id]

(***************************************************************************)
(* composeLayers: the flattened image of the visible layers, bottom to     *)
(* top, on a canvas of the given size.  An image or drawing layer whose    *)
(* src fails to load is caught, logged and left out; the loop goes on.     *)
(***************************************************************************)
DecodeFails(l) ==
    /\ l.visible
    /\ l.type \in {"image", "drawing"}
    /\ l.src # NoImage
    /\ ~Decodes(l.src)

Drawn(l) ==
    /\ l.visible
    /\ \/ l.type \in {"image", "drawing"} /\ l.src # NoImage /\ Decodes(l.src)
       \/ l.type = "text" /\ l.text # ""

composeLayersStoppingAtFailure(ls, width, height) ==
    LET failures == {i \in 1..Len(ls) : DecodeFails(ls[i])}
        last == IF failures = {} THEN Len(ls)
                ELSE (CHOOSE i \in failures : \A j \in failures : i <= j) - 1
    IN  <<"composite", SelectSeq(SubSeq(ls, 1, last), Drawn), width, height>>

composeLayers(ls, width, height) ==
    <<"composite", SelectSeq(ls, Drawn), width, height>>

(***************************************************************************)
(* captureHistorySnapshot.  The call reads the handler's own (closed-over) *)
(* state and imageDimensions and starts a compose; the .then callback runs *)
(* later (SnapshotResolve) on the state current at that time.              *)
(***************************************************************************)
ComposeWidth(dims) ==
    IF dims = NoDimensions \/ dims.naturalWidth = 0 THEN 800 ELSE dims.naturalWidth

ComposeHeight(dims) ==
    IF dims = NoDimensions \/ dims.naturalHeight = 0 THEN 800 ELSE dims.naturalHeight

Snapshots(s) == s.uploadedImage # NoImage

captureHistorySnapshot(s, dims, p) ==
    IF ~Snapshots(s) THEN p
    ELSE Append(p, composeLayers(s.layers, ComposeWidth(dims), ComposeHeight(dims)))

HistoryItem(composite, ls, label) ==
    [image |-> composite, layers |-> ls, label |-> label]

SnapshotAppendedPastEnd(s, composite) ==
    LET newHistory == Append(Slice(s.editHistory, 0, s.currentHistoryIndex + 1),
                             [image |-> composite, layers |-> JsonCopy(s.layers),
                              label |-> "Action"])
    IN  [s EXCEPT !.editHistory = newHistory,
                  !.currentHistoryIndex = Len(newHistory)]

SnapshotAppendedWithoutTruncation(s, composite) ==
    LET newHistory == Append(s.editHistory,
                             [image |-> composite, layers |-> JsonCopy(s.layers),
                              label |-> "Action"])
    IN  [s EXCEPT !.editHistory = newHistory,
                  !.currentHistoryIndex = Len(newHistory) - 1]

SnapshotAppended(s, composite) ==
    LET newHistory == Append(Slice(s.editHistory, 0, s.currentHistoryIndex + 1),
                             HistoryItem(composite, JsonCopy(s.layers), "Action"))
    IN  [s EXCEPT !.editHistory = newHistory,
                  !.currentHistoryIndex = Len(newHistory) - 1]

SnapshotResolve(i) ==
    /\ i \in 1..Len(pending)
    /\ state' = SnapshotAppended(state, pending[i])
    /\ pending' = RemoveAt(pending, i)
    /\ UNCHANGED <<showLayersPanel, toolVars, cropVars, imageDimensions, viewVars,
                   isDraggingLayer, tasks, now>>

(***************************************************************************)
(* composeLayers rejects when canvas.getContext('2d') gives no context.    *)
(* captureHistorySnapshot attaches only a .then callback: on a rejection   *)
(* the callback is skipped and no setState runs.                           *)
(***************************************************************************)
SnapshotRejectedAsResolved(s, composite) == SnapshotAppended(s, NoImage)

SnapshotRejected(s, composite) == s

SnapshotReject(i) ==
    /\ i \in 1..Len(pending)
    /\ state' = SnapshotRejected(state, pending[i])
    /\ pending' = RemoveAt(pending, i)
    /\ UNCHANGED <<showLayersPanel, toolVars, cropVars, imageDimensions, viewVars,
                   isDraggingLayer, tasks, now>>

(***************************************************************************)
(* Room for one more snapshot within the bounds of the model.              *)
(***************************************************************************)
RoomToSnapshot(s) ==
    Snapshots(s) =>
        /\ Len(pending) < MaxPending
        /\ Len(state.editHistory) + Len(pending) < MaxHistory

(***************************************************************************)
(* What the page shows.                                                    *)
(***************************************************************************)
UploaderShown == state.mode \in {"EDIT", "ANALYZE"}

EditToolbarShown == state.mode = "EDIT" /\ state.uploadedImage # NoImage

HistoryControlsShown == state.mode = "EDIT" /\ state.uploadedImage # NoImage

LayersPanelShown == showLayersPanel /\ state.mode = "EDIT"

LayerShown(i) == UploaderShown /\ i \in 1..Len(state.layers) /\ state.layers[i].visible

(***************************************************************************)
(* handleModeChange, called by a click in the sidebar: the pointer is not  *)
(* held down in a drag.                                                    *)
(***************************************************************************)
ModeChanged(s, mode) ==
    [s EXCEPT !.mode = mode,
              !.resultImage = NoImage,
              !.errorMessage = NoMessage,
              !.uploadedImage = IF mode = "GENERATE" THEN NoImage ELSE @,
              !.layers = IF mode = "GENERATE" THEN <<>> ELSE @,
              !.editHistory = IF mode = "GENERATE" THEN <<>> ELSE @,
              !.currentHistoryIndex = IF mode = "GENERATE" THEN -1 ELSE @]

handleModeChange(mode) ==
    /\ mode \in Modes
    /\ ~isDragging /\ ~isDraggingLayer /\ ~isSelectingCrop
    /\ state' = ModeChanged(state, mode)
    /\ showAdjustments' = FALSE
    /\ showTextTools' = FALSE
    /\ showBrushTools' = FALSE
    /\ brushCanvas' = 0
    /\ showCropTools' = FALSE
    /\ zoom' = Num(1)
    /\ pan' = [x |-> Num(0), y |-> Num(0)]
    /\ UNCHANGED <<showLayersPanel, isDrawing, cropVars, imageDimensions, isDragging, dragStart,
                   isDraggingLayer, pending, tasks, now>>

(***************************************************************************)
(* handleUndo / handleRedo                                                 *)
(***************************************************************************)
UndoneKeepingStack(s) ==
    IF s.currentHistoryIndex > 0
    THEN [s EXCEPT !.currentHistoryIndex = s.currentHistoryIndex - 1,
                   !.resultImage = NoImage]
    ELSE s

RedoneKeepingStack(s) ==
    IF s.currentHistoryIndex < Len(s.editHistory) - 1
    THEN [s EXCEPT !.currentHistoryIndex = s.currentHistoryIndex + 1,
                   !.resultImage = NoImage]
    ELSE s

Undone(s) ==
    IF s.currentHistoryIndex > 0
    THEN LET newIndex == s.currentHistoryIndex - 1
             prevItem == s.editHistory[newIndex + 1]
         IN  [s EXCEPT !.currentHistoryIndex = newIndex,
                       !.layers = JsonCopy(prevItem.layers),
                       !.resultImage = NoImage]
    ELSE s

Redone(s) ==
    IF s.currentHistoryIndex < Len(s.editHistory) - 1
    THEN LET newIndex == s.currentHistoryIndex + 1
             nextItem == s.editHistory[newIndex + 1]
         IN  [s EXCEPT !.currentHistoryIndex = newIndex,
                       !.layers = JsonCopy(nextItem.layers),
                       !.resultImage = NoImage]
    ELSE s

CanUndo == HistoryControlsShown /\ ~(state.currentHistoryIndex <= 0)

CanRedo == HistoryControlsShown /\ ~(state.currentHistoryIndex >= Len(state.editHistory) - 1)

handleUndo ==
    /\ CanUndo
    /\ state' = Undone(state)
    /\ UNCHANGED <<showLayersPanel, toolVars, cropVars, imageDimensions, viewVars,
                   isDraggingLayer, pending, tasks, now>>

handleRedo ==
    /\ CanRedo
    /\ state' = Redone(state)
    /\ UNCHANGED <<showLayersPanel, toolVars, cropVars, imageDimensions, viewVars,
                   isDraggingLayer, pending, tasks, now>>

(***************************************************************************)
(* handleImageUpload                                                       *)
(***************************************************************************)
UploadedKeepingHistory(s, dataUri) ==
    [s EXCEPT !.uploadedImage = dataUri,
              !.resultImage = NoImage,
              !.layers = <<BaseLayer(dataUri)>>,
              !.activeLayerId = BaseLayer(dataUri).id,
              !.editHistory = Append(@, [image |-> dataUri,
                                         layers |-> <<BaseLayer(dataUri)>>,
                                         label |-> "Original Upload"]),
              !.currentHistoryIndex = Len(s.editHistory),
              !.errorMessage = NoMessage]

Uploaded(s, dataUri) ==
    [s EXCEPT !.uploadedImage = dataUri,
              !.resultImage = NoImage,
              !.layers = <<BaseLayer(dataUri)>>,
              !.activeLayerId = BaseLayer(dataUri).id,
              !.editHistory = <<HistoryItem(dataUri, <<BaseLayer(dataUri)>>,
                                            "Original Upload")>>,
              !.currentHistoryIndex = 0,
              !.errorMessage = NoMessage]

handleImageUpload(dataUri) ==
    /\ state' = Uploaded(state, dataUri)
    /\ cropSelection' = NoSelection
    /\ showCropTools' = FALSE
    /\ zoom' = Num(1)
    /\ pan' = [x |-> Num(0), y |-> Num(0)]

(***************************************************************************)
(* ImageUploader: the file input is reachable only while there is no layer.*)
(***************************************************************************)
UploadFile(dataUri) ==
    /\ UploaderShown
    /\ ~isDragging /\ ~isDraggingLayer /\ ~isSelectingCrop
    /\ Len(state.layers) = 0
    /\ handleImageUpload(dataUri)
    /\ UNCHANGED <<showLayersPanel, showAdjustments, brushVars, showTextTools,
                   isSelectingCrop, cropStartRef, imageDimensions, isDragging,
                   dragStart, isDraggingLayer, pending, tasks, now>>

(***************************************************************************)
(* The pointer is not held down in a drag: a click on a button needs a     *)
(* mouse-up first, and mouse-up (or leaving the canvas) ends every drag.   *)
(***************************************************************************)
PointerFree == ~isDragging /\ ~isDraggingLayer /\ ~isSelectingCrop

(***************************************************************************)
(* handleImageLoad: onLoad of the bottom layer's <img> (or of the fallback *)
(* <img> when there is no layer).  The image is shown at 1/k of its        *)
(* natural size.                                                           *)
(***************************************************************************)
DisplayDivisors == {2}

LoadedImage ==
    IF Len(state.layers) > 0
    THEN IF state.layers[1].visible /\ state.layers[1].type = "image"
         THEN state.layers[1].src ELSE NoImage
    ELSE state.uploadedImage

Dimensions(img, k) ==
    [width |-> ImageSize(img).w \div k, height |-> ImageSize(img).h \div k,
     naturalWidth |-> ImageSize(img).w, naturalHeight |-> ImageSize(img).h]

handleImageLoad(k) ==
    /\ UploaderShown
    /\ LoadedImage # NoImage
    /\ Decodes(LoadedImage)
    /\ ImageSize(LoadedImage).w \div k > 0 /\ ImageSize(LoadedImage).h \div k > 0
    /\ IF imageDimensions = NoDimensions THEN TRUE
       ELSE imageDimensions.naturalWidth # ImageSize(LoadedImage).w
            \/ imageDimensions.naturalHeight # ImageSize(LoadedImage).h
    /\ imageDimensions' = Dimensions(LoadedImage, k)
    /\ brushCanvas' = 0
    /\ UNCHANGED <<state, showLayersPanel, showAdjustments, showBrushTools, isDrawing,
                   showCropTools, showTextTools, cropVars, viewVars,
                   isDraggingLayer, pending, tasks, now>>

(***************************************************************************)
(* updateLayer                                                             *)
(***************************************************************************)
LayersUpdated(ls, id, updates) ==
    [i \in 1..Len(ls) |-> IF ls[i].id = id THEN Merge(ls[i], updates) ELSE ls[i]]

updateLayerInPlace(s, id, updates) ==
    [s EXCEPT !.layers = LayersUpdated(@, id, updates),
              !.editHistory = [k \in 1..Len(@) |->
                                  [@[k] EXCEPT !.layers = LayersUpdated(@, id, updates)]]]

updateLayer(s, id, updates) == [s EXCEPT !.layers = LayersUpdated(@, id, updates)]

(***************************************************************************)
(* handleAddText (toolbar), handleAddImageLayer (layers panel)             *)
(***************************************************************************)
LayerAdded(s, newLayer) ==
    [s EXCEPT !.layers = Append(@, newLayer), !.activeLayerId = newLayer.id]

handleAddText(t) ==
    /\ EditToolbarShown /\ PointerFree
    /\ Len(state.layers) < MaxLayers
    /\ RoomToSnapshot(state)
    /\ t \in ClockReads
    /\ now' = t
    /\ state' = LayerAdded(state, TextLayer(t))
    /\ showTextTools' = TRUE
    /\ showLayersPanel' = TRUE
    /\ pending' = captureHistorySnapshot(state, imageDimensions, pending)
    /\ UNCHANGED <<showAdjustments, brushVars, showCropTools, cropVars,
                   imageDimensions, viewVars, isDraggingLayer, tasks>>

handleAddImageLayer(dataUri, t) ==
    /\ Len(state.layers) < MaxLayers
    /\ RoomToSnapshot(state)
    /\ t \in ClockReads
    /\ now' = t
    /\ state' = LayerAdded(state, ImageLayer(dataUri, t, Len(state.layers) + 1))
    /\ pending' = captureHistorySnapshot(state, imageDimensions, pending)

PanelAddImageLayer(dataUri, t) ==
    /\ LayersPanelShown /\ PointerFree
    /\ handleAddImageLayer(dataUri, t)
    /\ UNCHANGED <<showLayersPanel, toolVars, cropVars, imageDimensions, viewVars,
                   isDraggingLayer, tasks>>

(***************************************************************************)
(* handleDeleteLayer: the panel's delete button of the active layer, and   *)
(* Delete/Backspace in handleCanvasKeyDown.                                *)
(***************************************************************************)
LayerDeleted(s, id) ==
    [s EXCEPT !.layers = SelectSeq(@, LAMBDA l : l.id # id),
              !.activeLayerId = IF @ = id THEN NoLayerId ELSE @]

handleDeleteLayer(id) ==
    /\ RoomToSnapshot(state)
    /\ state' = LayerDeleted(state, id)
    /\ pending' = captureHistorySnapshot(state, imageDimensions, pending)
    /\ UNCHANGED <<showLayersPanel, toolVars, cropVars, imageDimensions, viewVars,
                   isDraggingLayer, tasks, now>>

PanelDeleteLayer ==
    /\ LayersPanelShown /\ PointerFree
    /\ HasLayer(state.layers, state.activeLayerId)
    /\ handleDeleteLayer(state.activeLayerId)

KeyDelete ==
    /\ ~showCropTools /\ editingTextId = NoLayerId
    /\ state.mode = "EDIT" \/ state.resultImage # NoImage \/ state.uploadedImage # NoImage
    /\ state.activeLayerId # NoLayerId
    /\ handleDeleteLayer(state.activeLayerId)

(***************************************************************************)
(* handleReorderLayer (indices count from 0, as in the code), called by    *)
(* the move up / move down buttons of the active layer.                    *)
(***************************************************************************)
LayersSwapped(ls, fromIndex, toIndex) ==
    IF toIndex < 0 \/ toIndex >= Len(ls) THEN ls
    ELSE [i \in 1..Len(ls) |-> IF i = fromIndex + 1 THEN ls[toIndex + 1]
                               ELSE IF i = toIndex + 1 THEN ls[fromIndex + 1]
                               ELSE ls[i]]

LayersReordered(ls, fromIndex, toIndex) ==
    IF toIndex < 0 \/ toIndex >= Len(ls) THEN ls
    ELSE InsertAt(RemoveAt(ls, fromIndex + 1), toIndex + 1, ls[fromIndex + 1])

RealIndex(ls, id) ==
    (CHOOSE i \in 1..Len(ls) : ls[i].id = id /\ \A j \in 1..(i - 1) : ls[j].id # id) - 1

handleReorderLayer(fromIndex, toIndex) ==
    /\ ~(toIndex < 0 \/ toIndex >= Len(state.layers))
    /\ RoomToSnapshot(state)
    /\ state' = [state EXCEPT !.layers = LayersReordered(@, fromIndex, toIndex)]
    /\ pending' = captureHistorySnapshot(state, imageDimensions, pending)
    /\ UNCHANGED <<showLayersPanel, toolVars, cropVars, imageDimensions, viewVars,
                   isDraggingLayer, tasks, now>>

PanelMoveUp ==
    /\ LayersPanelShown /\ PointerFree
    /\ HasLayer(state.layers, state.activeLayerId)
    /\ LET realIndex == RealIndex(state.layers, state.activeLayerId)
       IN  /\ ~(realIndex >= Len(state.layers) - 1)
           /\ handleReorderLayer(realIndex, realIndex + 1)

PanelMoveDown ==
    /\ LayersPanelShown /\ PointerFree
    /\ HasLayer(state.layers, state.activeLayerId)
    /\ LET realIndex == RealIndex(state.layers, state.activeLayerId)
       IN  /\ ~(realIndex <= 0)
           /\ handleReorderLayer(realIndex, realIndex - 1)

(***************************************************************************)
(* LayersPanel: select a layer; onUpdateLayer (eye and lock buttons),      *)
(* which snapshots.                                                        *)
(***************************************************************************)
PanelSelectLayer(i) ==
    /\ LayersPanelShown /\ PointerFree
    /\ i \in 1..Len(state.layers)
    /\ state' = [state EXCEPT !.activeLayerId = state.layers[i].id]
    /\ showTextTools' = IF state.layers[i].type = "text" THEN TRUE ELSE showTextTools
    /\ UNCHANGED <<showLayersPanel, showAdjustments, brushVars, showCropTools,
                   cropVars, imageDimensions, viewVars, isDraggingLayer, pending,
                   tasks, now>>

PanelUpdateLayer(id, updates) ==
    /\ LayersPanelShown /\ PointerFree
    /\ RoomToSnapshot(state)
    /\ state' = updateLayer(state, id, updates)
    /\ pending' = captureHistorySnapshot(state, imageDimensions, pending)
    /\ UNCHANGED <<showLayersPanel, toolVars, cropVars, imageDimensions, viewVars,
                   isDraggingLayer, tasks, now>>

PanelToggleVisible(i) ==
    /\ i \in 1..Len(state.layers)
    /\ PanelUpdateLayer(state.layers[i].id, [visible |-> ~state.layers[i].visible])

PanelToggleLocked(i) ==
    /\ i \in 1..Len(state.layers)
    /\ PanelUpdateLayer(state.layers[i].id, [locked |-> ~state.layers[i].locked])

(***************************************************************************)
(* Text properties panel: updateLayer without a snapshot.                  *)
(***************************************************************************)
Texts == {"Hello"}

TextPanelShown ==
    /\ showTextTools
    /\ HasLayer(state.layers, state.activeLayerId)
    /\ FindLayer(state.layers, state.activeLayerId).type = "text"

TextPanelInput(text) ==
    /\ TextPanelShown /\ PointerFree
    /\ state' = updateLayer(state, state.activeLayerId, [text |-> text])
    /\ UNCHANGED <<showLayersPanel, toolVars, cropVars, imageDimensions, viewVars,
                   isDraggingLayer, pending, tasks, now>>

(***************************************************************************)
(* Pointer handlers of the canvas: handleLayerMouseDown (on a layer that   *)
(* is not at index 0 and not under the crop or brush overlay),             *)
(* handleMouseDown (canvas background), handleMouseMove, handleMouseUp.    *)
(***************************************************************************)
Point(x, y) == [x |-> Num(x), y |-> Num(y)]

OverlayCovers == showCropTools \/ (showBrushTools /\ imageDimensions # NoDimensions)

handleLayerMouseDown(i) ==
    /\ LayerShown(i) /\ i # 1
    /\ ~OverlayCovers /\ PointerFree
    /\ LET id == state.layers[i].id
           layer == FindLayer(state.layers, id)
       IN  /\ ~layer.locked
           /\ state' = [state EXCEPT !.activeLayerId = id]
           /\ isDraggingLayer' = TRUE
           /\ showTextTools' = (layer.type = "text")
    /\ UNCHANGED <<showLayersPanel, showAdjustments, brushVars, showCropTools,
                   cropVars, imageDimensions, viewVars, pending, tasks, now>>

handleMouseDown(client) ==
    /\ ~(showBrushTools \/ showCropTools)
    /\ ~isDraggingLayer
    /\ PointerFree
    /\ state' = [state EXCEPT !.activeLayerId = NoLayerId]
    /\ showTextTools' = IF state.activeLayerId # NoLayerId THEN FALSE ELSE showTextTools
    /\ showLayersPanel' = FALSE
    /\ IF (state.mode = "EDIT" \/ state.resultImage # NoImage) /\ ~RatLess(zoom, Num(1))
       THEN /\ isDragging' = TRUE
            /\ dragStart' = [x |-> RatSub(client.x, pan.x), y |-> RatSub(client.y, pan.y)]
       ELSE UNCHANGED <<isDragging, dragStart>>
    /\ UNCHANGED <<showAdjustments, brushVars, showCropTools, cropVars,
                   imageDimensions, zoom, pan, isDraggingLayer, pending, tasks, now>>

DragTarget(ls, id) == IF HasLayer(ls, id) THEN FindLayer(ls, id) ELSE [x |-> Num(0), y |-> Num(0)]

LayerDragged(s, movement, z) ==
    updateLayer(s, s.activeLayerId,
        [x |-> RatAdd(DragTarget(s.layers, s.activeLayerId).x, RatDiv(Num(movement.x), z)),
         y |-> RatAdd(DragTarget(s.layers, s.activeLayerId).y, RatDiv(Num(movement.y), z))])

DragRoom(l) ==
    LET origin == IF RatLess(l.x, Num(50)) THEN Num(0) ELSE Num(50)
    IN  RatLess(RatAbs(RatSub(l.x, origin)), Num(MaxDrag))

handleMouseMove(movement, client) ==
    /\ ~(showBrushTools \/ showCropTools)
    /\ IF isDraggingLayer /\ state.activeLayerId # NoLayerId /\ editingTextId = NoLayerId
       THEN /\ DragRoom(DragTarget(state.layers, state.activeLayerId))
            /\ state' = LayerDragged(state, movement, zoom)
            /\ UNCHANGED pan
       ELSE /\ isDragging
            /\ pan' = [x |-> RatSub(client.x, dragStart.x), y |-> RatSub(client.y, dragStart.y)]
            /\ UNCHANGED state
    /\ UNCHANGED <<showLayersPanel, toolVars, cropVars, imageDimensions, zoom,
                   isDragging, dragStart, isDraggingLayer, pending, tasks, now>>

handleMouseUp ==
    /\ isDragging \/ isDraggingLayer
    /\ isDragging' = FALSE
    /\ isDraggingLayer' = FALSE
    /\ UNCHANGED <<state, showLayersPanel, toolVars, cropVars, imageDimensions, zoom,
                   pan, dragStart, pending, tasks, now>>

(***************************************************************************)
(* Toolbar buttons and panel close buttons.                                *)
(***************************************************************************)
ToggleLayersPanel ==
    /\ EditToolbarShown /\ PointerFree
    /\ showLayersPanel' = ~showLayersPanel
    /\ UNCHANGED <<state, toolVars, cropVars, imageDimensions, viewVars,
                   isDraggingLayer, pending, tasks, now>>

handleDoubleClick ==
    /\ state.mode = "EDIT" /\ PointerFree
    /\ ~showLayersPanel
    /\ showLayersPanel' = TRUE
    /\ UNCHANGED <<state, toolVars, cropVars, imageDimensions, viewVars,
                   isDraggingLayer, pending, tasks, now>>

ToggleCropTools ==
    /\ EditToolbarShown /\ PointerFree
    /\ showCropTools' = ~showCropTools
    /\ IF ~showCropTools
       THEN cropSelection' = NoSelection /\ isSelectingCrop' = FALSE
       ELSE UNCHANGED <<cropSelection, isSelectingCrop>>
    /\ UNCHANGED <<state, showLayersPanel, showAdjustments, brushVars,
                   showTextTools, cropStartRef, imageDimensions, viewVars,
                   isDraggingLayer, pending, tasks, now>>

CloseCropTools ==
    /\ showCropTools /\ PointerFree
    /\ showCropTools' = FALSE
    /\ UNCHANGED <<state, showLayersPanel, showAdjustments, brushVars,
                   showTextTools, cropVars, imageDimensions, viewVars,
                   isDraggingLayer, pending, tasks, now>>

OpenAdjustments ==
    /\ EditToolbarShown /\ PointerFree
    /\ showAdjustments' = TRUE
    /\ UNCHANGED <<state, showLayersPanel, brushVars, showCropTools,
                   showTextTools, cropVars, imageDimensions, viewVars,
                   isDraggingLayer, pending, tasks, now>>

CloseAdjustments ==
    /\ showAdjustments /\ PointerFree
    /\ showAdjustments' = FALSE
    /\ UNCHANGED <<state, showLayersPanel, brushVars, showCropTools,
                   showTextTools, cropVars, imageDimensions, viewVars,
                   isDraggingLayer, pending, tasks, now>>

CloseTextTools ==
    /\ TextPanelShown /\ PointerFree
    /\ showTextTools' = FALSE
    /\ UNCHANGED <<state, showLayersPanel, showAdjustments, brushVars,
                   showCropTools, cropVars, imageDimensions, viewVars,
                   isDraggingLayer, pending, tasks, now>>

(***************************************************************************)
(* Crop overlay: handleCropStart / handleCropMove / handleCropEnd.         *)
(***************************************************************************)
CropOverlayShown == showCropTools /\ UploaderShown /\ (Len(state.layers) > 0 \/ state.uploadedImage # NoImage)

CropSelectedFromAnchor(start, current) ==
    [x |-> start.x, y |-> start.y,
     width |-> RatSub(current.x, start.x),
     height |-> RatSub(current.y, start.y)]

CropSelected(start, current) ==
    LET width == RatSub(current.x, start.x)
        height == RatSub(current.y, start.y)
    IN  [x |-> IF RatLess(Num(0), width) THEN start.x ELSE current.x,
         y |-> IF RatLess(Num(0), height) THEN start.y ELSE current.y,
         width |-> RatAbs(width),
         height |-> RatAbs(height)]

handleCropStart(p) ==
    /\ CropOverlayShown /\ PointerFree
    /\ isSelectingCrop' = TRUE
    /\ cropStartRef' = p
    /\ cropSelection' = [x |-> p.x, y |-> p.y, width |-> Num(0), height |-> Num(0)]
    /\ UNCHANGED <<state, showLayersPanel, toolVars, imageDimensions, viewVars,
                   isDraggingLayer, pending, tasks, now>>

handleCropMove(p) ==
    /\ CropOverlayShown
    /\ isSelectingCrop
    /\ cropSelection' = CropSelected(cropStartRef, p)
    /\ UNCHANGED <<state, showLayersPanel, toolVars, isSelectingCrop, cropStartRef,
                   imageDimensions, viewVars, isDraggingLayer, pending, tasks, now>>

handleCropEnd ==
    /\ CropOverlayShown
    /\ isSelectingCrop
    /\ isSelectingCrop' = FALSE
    /\ UNCHANGED <<state, showLayersPanel, toolVars, cropSelection, cropStartRef,
                   imageDimensions, viewVars, isDraggingLayer, pending, tasks, now>>

(***************************************************************************)
(* applyCurrentCrop: up to the await of cropImage, and after it.           *)
(***************************************************************************)
FinalCropUnscaled(sel, dims) ==
    [x |-> sel.x, y |-> sel.y, width |-> sel.width, height |-> sel.height]

FinalCrop(sel, dims) ==
    LET scaleX == RatDiv(Num(dims.naturalWidth), Num(dims.width))
        scaleY == RatDiv(Num(dims.naturalHeight), Num(dims.height))
    IN  [x |-> RatMul(sel.x, scaleX),
         y |-> RatMul(sel.y, scaleY),
         width |-> RatMul(sel.width, scaleX),
         height |-> RatMul(sel.height, scaleY)]

cropImage(dataUri, crop) == <<"crop", dataUri, crop>>

applyCurrentCrop ==
    /\ showCropTools /\ PointerFree /\ ~isSelectingCrop
    /\ ~(cropSelection = NoSelection \/ state.uploadedImage = NoImage
           \/ imageDimensions = NoDimensions)
    /\ Len(tasks) < MaxTasks
    /\ ImageDepth(state.uploadedImage) < MaxImageDepth
    /\ tasks' = Append(tasks, [kind |-> "crop", image |-> state.uploadedImage,
                               crop |-> FinalCrop(cropSelection, imageDimensions)])
    /\ UNCHANGED <<state, showLayersPanel, toolVars, cropVars, imageDimensions,
                   viewVars, isDraggingLayer, pending, now>>

CropResolved(i) ==
    /\ i \in 1..Len(tasks)
    /\ tasks[i].kind = "crop"
    /\ handleImageUpload(cropImage(tasks[i].image, tasks[i].crop))
    /\ tasks' = RemoveAt(tasks, i)
    /\ UNCHANGED <<showLayersPanel, showAdjustments, brushVars, showTextTools,
                   isSelectingCrop, cropStartRef, imageDimensions, isDragging,
                   dragStart, isDraggingLayer, pending, now>>

CropRejected(i) ==
    /\ i \in 1..Len(tasks)
    /\ tasks[i].kind = "crop"
    /\ state' = [state EXCEPT !.errorMessage = "Failed to crop image"]
    /\ tasks' = RemoveAt(tasks, i)
    /\ UNCHANGED <<showLayersPanel, toolVars, cropVars, imageDimensions, viewVars,
                   isDraggingLayer, pending, now>>

(***************************************************************************)
(* applyCurrentAdjustments: up to the await of applyAdjustments, and after *)
(* it.  The continuation snapshots with the state and imageDimensions of   *)
(* the render in which Apply was clicked.                                  *)
(***************************************************************************)
applyAdjustments(dataUri) == <<"adjust", dataUri>>

BaseSrcReplaced(ls, newImage) ==
    [i \in 1..Len(ls) |-> IF i = 1 THEN Merge(ls[i], [src |-> newImage]) ELSE ls[i]]

applyCurrentAdjustments ==
    /\ showAdjustments /\ PointerFree
    /\ state.uploadedImage # NoImage
    /\ Len(tasks) < MaxTasks
    /\ ImageDepth(state.uploadedImage) < MaxImageDepth
    /\ state' = [state EXCEPT !.status = "loading"]
    /\ tasks' = Append(tasks, [kind |-> "adjust", closure |-> state,
                               dims |-> imageDimensions])
    /\ UNCHANGED <<showLayersPanel, toolVars, cropVars, imageDimensions, viewVars,
                   isDraggingLayer, pending, now>>

AdjustResolved(i) ==
    /\ i \in 1..Len(tasks)
    /\ tasks[i].kind = "adjust"
    /\ RoomToSnapshot(tasks[i].closure)
    /\ LET newImage == applyAdjustments(tasks[i].closure.uploadedImage)
       IN  state' = [state EXCEPT !.status = "idle",
                                  !.uploadedImage = newImage,
                                  !.layers = BaseSrcReplaced(@, newImage)]
    /\ pending' = captureHistorySnapshot(tasks[i].closure, tasks[i].dims, pending)
    /\ showAdjustments' = FALSE
    /\ tasks' = RemoveAt(tasks, i)
    /\ UNCHANGED <<showLayersPanel, brushVars, showCropTools, showTextTools,
                   cropVars, imageDimensions, viewVars, isDraggingLayer, now>>

AdjustRejected(i) ==
    /\ i \in 1..Len(tasks)
    /\ tasks[i].kind = "adjust"
    /\ state' = [state EXCEPT !.status = "error",
                              !.errorMessage = "Failed to apply adjustments"]
    /\ tasks' = RemoveAt(tasks, i)
    /\ UNCHANGED <<showLayersPanel, toolVars, cropVars, imageDimensions, viewVars,
                   isDraggingLayer, pending, now>>

(***************************************************************************)
(* Zoom: handleZoomIn / handleZoomOut (the zoom controls and the + / -     *)
(* keys), handleWheel, resetZoom (the reset button and the 0 / Escape      *)
(* keys).                                                                  *)
(***************************************************************************)
RatMin(p, q) == IF RatLess(q, p) THEN q ELSE p

RatMax(p, q) == IF RatLess(p, q) THEN q ELSE p

ZoomControlsShown == state.uploadedImage # NoImage \/ state.resultImage # NoImage

CanvasKeys ==
    /\ ~showCropTools /\ editingTextId = NoLayerId
    /\ state.mode = "EDIT" \/ state.resultImage # NoImage \/ state.uploadedImage # NoImage

ZoomedInUnclamped(z) == RatAdd(z, Rat(1, 2))

ZoomedIn(z) == RatMin(RatAdd(z, Rat(1, 2)), Num(5))

ZoomedOut(z) == RatMax(RatSub(z, Rat(1, 2)), Rat(1, 2))

WheelSigns == {-1, 0, 1}

Wheeled(z, sign) ==
    LET delta == RatMul(Num(-sign), Rat(1, 10))
    IN  RatMin(RatMax(RatAdd(z, delta), Rat(1, 2)), Num(5))

handleZoomIn ==
    /\ (ZoomControlsShown /\ PointerFree) \/ CanvasKeys
    /\ zoom' = ZoomedIn(zoom)
    /\ UNCHANGED <<state, showLayersPanel, toolVars, cropVars, imageDimensions, pan,
                   isDragging, dragStart, isDraggingLayer, pending, tasks, now>>

handleZoomOut ==
    /\ (ZoomControlsShown /\ PointerFree) \/ CanvasKeys
    /\ zoom' = ZoomedOut(zoom)
    /\ UNCHANGED <<state, showLayersPanel, toolVars, cropVars, imageDimensions, pan,
                   isDragging, dragStart, isDraggingLayer, pending, tasks, now>>

handleWheel(sign) ==
    /\ ~showCropTools
    /\ state.mode = "EDIT" \/ (state.mode = "GENERATE" /\ state.resultImage # NoImage)
    /\ zoom' = Wheeled(zoom, sign)
    /\ UNCHANGED <<state, showLayersPanel, toolVars, cropVars, imageDimensions, pan,
                   isDragging, dragStart, isDraggingLayer, pending, tasks, now>>

resetZoom ==
    /\ (ZoomControlsShown /\ PointerFree) \/ CanvasKeys
    /\ zoom' = Num(1)
    /\ pan' = [x |-> Num(0), y |-> Num(0)]
    /\ UNCHANGED <<state, showLayersPanel, toolVars, cropVars, imageDimensions,
                   isDragging, dragStart, isDraggingLayer, pending, tasks, now>>

(***************************************************************************)
(* The inputs of the pointer and crop handlers.                            *)
(***************************************************************************)
Movements == {[x |-> 1, y |-> 0]}

Pointers == {Point(0, 0)}

CropStarts == {Point(10, 10)}

CropMoves == {Point(60, 60)}

(***************************************************************************)
(* The editor without the crop tool: modes, upload, layer edits from the   *)
(* toolbar, the layers panel, the keyboard and the pointer, snapshot       *)
(* completion, undo and redo.                                              *)
(***************************************************************************)
Next ==
    \/ \E mode \in Modes : handleModeChange(mode)
    \/ \E dataUri \in DataUris : UploadFile(dataUri)
    \/ \E k \in DisplayDivisors : handleImageLoad(k)
    \/ \E t \in 0..MaxClock : handleAddText(t)
    \/ PanelDeleteLayer
    \/ KeyDelete
    \/ PanelMoveDown
    \/ \E i \in 1..MaxLayers : PanelToggleVisible(i)
    \/ \E i \in 1..MaxLayers : handleLayerMouseDown(i)
    \/ \E movement \in Movements, client \in Pointers : handleMouseMove(movement, client)
    \/ handleMouseUp
    \/ handleDoubleClick
    \/ \E i \in 1..MaxPending : SnapshotResolve(i)
    \/ handleUndo
    \/ handleRedo

Spec == Init /\ [][Next]_vars

(***************************************************************************)
(* The crop tool in an editing session: upload, text layers, snapshot      *)
(* completion, undo and redo, and the crop overlay from selection to the   *)
(* resolved cropImage.                                                     *)
(***************************************************************************)
NextCrop ==
    \/ handleModeChange("EDIT")
    \/ \E dataUri \in DataUris : UploadFile(dataUri)
    \/ \E k \in DisplayDivisors : handleImageLoad(k)
    \/ \E t \in 0..MaxClock : handleAddText(t)
    \/ \E i \in 1..MaxPending : SnapshotResolve(i)
    \/ handleUndo
    \/ handleRedo
    \/ ToggleCropTools
    \/ \E p \in CropStarts : handleCropStart(p)
    \/ \E p \in CropMoves : handleCropMove(p)
    \/ handleCropEnd
    \/ applyCurrentCrop
    \/ \E i \in 1..MaxTasks : CropResolved(i)

SpecCrop == Init /\ [][NextCrop]_vars

(***************************************************************************)
(* The adjustments panel next to the crop tool: upload, tune and apply,    *)
(* snapshot completion, undo and redo, crop.                               *)
(***************************************************************************)
NextAdjust ==
    \/ handleModeChange("EDIT")
    \/ \E dataUri \in DataUris : UploadFile(dataUri)
    \/ \E k \in DisplayDivisors : handleImageLoad(k)
    \/ OpenAdjustments
    \/ applyCurrentAdjustments
    \/ \E i \in 1..MaxTasks : AdjustResolved(i)
    \/ \E i \in 1..MaxPending : SnapshotResolve(i)
    \/ handleUndo
    \/ handleRedo
    \/ ToggleCropTools
    \/ \E p \in CropStarts : handleCropStart(p)
    \/ \E p \in CropMoves : handleCropMove(p)
    \/ handleCropEnd
    \/ applyCurrentCrop
    \/ \E i \in 1..MaxTasks : CropResolved(i)

SpecAdjust == Init /\ [][NextAdjust]_vars

(***************************************************************************)
(* Adjusting a stack that has been restacked: upload, text layers, the     *)
(* move-down button, the adjustments panel from opening to the resolved    *)
(* applyAdjustments, and the settling of the snapshots either way.         *)
(***************************************************************************)
NextRestack ==
    \/ handleModeChange("EDIT")
    \/ \E dataUri \in DataUris : UploadFile(dataUri)
    \/ \E t \in 0..MaxClock : handleAddText(t)
    \/ PanelMoveDown
    \/ OpenAdjustments
    \/ applyCurrentAdjustments
    \/ \E i \in 1..MaxTasks : AdjustResolved(i)
    \/ \E i \in 1..MaxPending : SnapshotResolve(i)
    \/ \E i \in 1..MaxPending : SnapshotReject(i)

SpecRestack == Init /\ [][NextRestack]_vars

(***************************************************************************)
(* The view zoom: modes, upload, the zoom controls and keys, the wheel.    *)
(***************************************************************************)
NextZoom ==
    \/ \E mode \in Modes : handleModeChange(mode)
    \/ \E dataUri \in DataUris : UploadFile(dataUri)
    \/ handleZoomIn
    \/ handleZoomOut
    \/ \E sign \in WheelSigns : handleWheel(sign)
    \/ resetZoom

SpecZoom == Init /\ [][NextZoom]_vars

(***************************************************************************)
(* Dragging layers: upload, text layers, pointer-down, -move and -up on a  *)
(* layer, and the zoom controls between 100% and 200%.                     *)
(***************************************************************************)
NextPointer ==
    \/ handleModeChange("EDIT")
    \/ \E dataUri \in DataUris : UploadFile(dataUri)
    \/ \E t \in 0..MaxClock : handleAddText(t)
    \/ \E i \in 1..MaxLayers : handleLayerMouseDown(i)
    \/ \E movement \in Movements, client \in Pointers : handleMouseMove(movement, client)
    \/ handleMouseUp
    \/ handleZoomIn /\ RatLess(zoom, Num(2))
    \/ handleZoomOut /\ RatLess(Num(1), zoom)

SpecPointer == Init /\ [][NextPointer]_vars

(***************************************************************************)
(* Dragging a layer while a crop is being applied: upload, text layers,    *)
(* the lock button, the pointer on a layer, and the crop tool from         *)
(* selection to the resolved cropImage.                                    *)
(***************************************************************************)
NextCropDrag ==
    \/ handleModeChange("EDIT")
    \/ \E dataUri \in DataUris : UploadFile(dataUri)
    \/ \E k \in DisplayDivisors : handleImageLoad(k)
    \/ \E t \in 0..MaxClock : handleAddText(t)
    \/ \E i \in 1..MaxLayers : PanelToggleLocked(i)
    \/ \E i \in 1..MaxLayers : handleLayerMouseDown(i)
    \/ \E movement \in Movements, client \in Pointers : handleMouseMove(movement, client)
    \/ handleMouseUp
    \/ ToggleCropTools
    \/ \E p \in CropStarts : handleCropStart(p)
    \/ handleCropEnd
    \/ applyCurrentCrop
    \/ \E i \in 1..MaxTasks : CropResolved(i)

SpecCropDrag == Init /\ [][NextCropDrag]_vars

(***************************************************************************)
(* The brush.  The Brush button shows the brush panel and, once the image  *)
(* has loaded, a canvas over the layers; the canvas is unmounted with the  *)
(* panel, and a new one is blank.  Pointer moves with the button down      *)
(* stroke the canvas.  applyBrush (the panel's check button) has no await: *)
(* it turns the canvas into a drawing layer on top of the stack, clears    *)
(* the canvas, closes the panel and asks for a snapshot.  The panel has no *)
(* control for the brush opacity, which keeps its default.                 *)
(***************************************************************************)
BrushOpacity == 100

BrushCanvasShown ==
    /\ showBrushTools /\ imageDimensions # NoDimensions
    /\ UploaderShown
    /\ Len(state.layers) > 0 \/ state.uploadedImage # NoImage

OpenBrushTools ==
    /\ EditToolbarShown /\ PointerFree
    /\ ~showBrushTools
    /\ showBrushTools' = TRUE
    /\ UNCHANGED <<state, showLayersPanel, showAdjustments, brushCanvas, isDrawing,
                   showCropTools, showTextTools, cropVars, imageDimensions, viewVars,
                   isDraggingLayer, pending, tasks, now>>

CloseBrushTools ==
    /\ showBrushTools /\ PointerFree
    /\ showBrushTools' = FALSE
    /\ brushCanvas' = 0
    /\ UNCHANGED <<state, showLayersPanel, showAdjustments, isDrawing,
                   showCropTools, showTextTools, cropVars, imageDimensions, viewVars,
                   isDraggingLayer, pending, tasks, now>>

BrushDown ==
    /\ BrushCanvasShown /\ PointerFree
    /\ ~isDrawing
    /\ isDrawing' = TRUE
    /\ UNCHANGED <<state, showLayersPanel, showAdjustments, showBrushTools, brushCanvas,
                   showCropTools, showTextTools, cropVars, imageDimensions, viewVars,
                   isDraggingLayer, pending, tasks, now>>

BrushMove ==
    /\ BrushCanvasShown
    /\ isDrawing
    /\ brushCanvas < MaxStrokes
    /\ brushCanvas' = brushCanvas + 1
    /\ UNCHANGED <<state, showLayersPanel, showAdjustments, showBrushTools, isDrawing,
                   showCropTools, showTextTools, cropVars, imageDimensions, viewVars,
                   isDraggingLayer, pending, tasks, now>>

BrushUp ==
    /\ BrushCanvasShown
    /\ isDrawing
    /\ isDrawing' = FALSE
    /\ UNCHANGED <<state, showLayersPanel, showAdjustments, showBrushTools, brushCanvas,
                   showCropTools, showTextTools, cropVars, imageDimensions, viewVars,
                   isDraggingLayer, pending, tasks, now>>

CanvasDataUrl(strokes, dims) ==
    <<"drawing", strokes, dims.naturalWidth, dims.naturalHeight>>

DrawingLayer(src, t, dims) ==
    [id |-> LayerId("draw", t), type |-> "drawing", name |-> "Brush Stroke",
     visible |-> TRUE, locked |-> FALSE, opacity |-> BrushOpacity, src |-> src,
     x |-> Num(0), y |-> Num(0), rotation |-> 0, scale |-> Num(1),
     width |-> dims.naturalWidth, height |-> dims.naturalHeight]

BrushCommittedOverTop(s, newLayer) ==
    [s EXCEPT !.status = "idle",
              !.layers = [@ EXCEPT ![Len(@)] = newLayer],
              !.activeLayerId = newLayer.id]

BrushCommitted(s, newLayer) ==
    [s EXCEPT !.status = "idle",
              !.layers = Append(@, newLayer),
              !.activeLayerId = newLayer.id]

applyBrush(t) ==
    /\ showBrushTools /\ PointerFree
    /\ state.uploadedImage # NoImage
    /\ BrushCanvasShown
    /\ Len(state.layers) < MaxLayers
    /\ RoomToSnapshot(state)
    /\ t \in ClockReads
    /\ now' = t
    /\ state' = BrushCommitted(state,
                     DrawingLayer(CanvasDataUrl(brushCanvas, imageDimensions), t,
                                  imageDimensions))
    /\ brushCanvas' = 0
    /\ showBrushTools' = FALSE
    /\ pending' = captureHistorySnapshot(state, imageDimensions, pending)
    /\ UNCHANGED <<showLayersPanel, showAdjustments, isDrawing, showCropTools,
                   showTextTools, cropVars, imageDimensions, viewVars,
                   isDraggingLayer, tasks>>

NextBrush ==
    \/ handleModeChange("EDIT")
    \/ \E dataUri \in DataUris : UploadFile(dataUri)
    \/ \E k \in DisplayDivisors : handleImageLoad(k)
    \/ \E t \in 0..MaxClock : handleAddText(t)
    \/ OpenBrushTools
    \/ CloseBrushTools
    \/ BrushDown
    \/ BrushMove
    \/ BrushUp
    \/ \E t \in 0..MaxClock : applyBrush(t)
    \/ \E i \in 1..MaxPending : SnapshotResolve(i)

SpecBrush == Init /\ [][NextBrush]_vars

(***************************************************************************)
(* Panning the canvas: the pointer goes down on the background and moves   *)
(* over a few points of the screen, with the wheel turned and the brush    *)
(* and crop tools opened in between.  A new drag starts only while the pan *)
(* is within MaxPan of the origin, and the wheel stays within one notch of *)
(* 100%.                                                                   *)
(***************************************************************************)
PanPointers == {Point(0, 0), Point(5, 0), Point(0, 5)}

NextPan ==
    \/ handleModeChange("EDIT")
    \/ \E dataUri \in DataUris : UploadFile(dataUri)
    \/ \E client \in PanPointers :
          /\ handleMouseDown(client)
          /\ ~RatLess(Num(MaxPan), RatAbs(pan.x))
          /\ ~RatLess(Num(MaxPan), RatAbs(pan.y))
    \/ \E movement \in Movements, client \in PanPointers :
          handleMouseMove(movement, client)
    \/ handleMouseUp
    \/ \E sign \in WheelSigns :
          /\ handleWheel(sign)
          /\ RatLess(Rat(4, 5), zoom') /\ RatLess(zoom', Rat(6, 5))
    \/ OpenBrushTools
    \/ CloseBrushTools
    \/ ToggleCropTools

SpecPan == Init /\ [][NextPan]_vars

(***************************************************************************)
(* Dragging out a crop selection in every direction: the pointer goes down *)
(* and moves over a grid of points of the overlay.                         *)
(***************************************************************************)
CropGrid == {Point(x, y) : x \in {10, 30, 60}, y \in {10, 30, 60}}

NextCropSelect ==
    \/ handleModeChange("EDIT")
    \/ \E dataUri \in DataUris : UploadFile(dataUri)
    \/ ToggleCropTools
    \/ \E p \in CropGrid : handleCropStart(p)
    \/ \E p \in CropGrid : handleCropMove(p)
    \/ handleCropEnd

SpecCropSelect == Init /\ [][NextCropSelect]_vars

(***************************************************************************)
(* The AI collaborator: handleArtisticFilter (the style buttons of the     *)
(* edit toolbar) and handleAIAction (the prompt box, shown outside EDIT    *)
(* mode).  Each sets status to loading and awaits the service; the         *)
(* continuation runs later on the state current at that time.  The         *)
(* service throws an Error with a non-empty message.                       *)
(***************************************************************************)
Prompts == {"p"}

StyleLabels == {"Van Gogh"}

ServiceMessages == {"Failed to edit image"}

editImage(dataUri, prompt) == <<"edited", dataUri>>

generateImage(prompt) == <<"generated", prompt>>

PromptShown ==
    /\ ~showBrushTools /\ ~showTextTools /\ ~showAdjustments
    /\ state.mode # "EDIT"

PromptTyped(val) ==
    /\ PromptShown /\ PointerFree
    /\ state.status # "loading"
    /\ state.prompt # val
    /\ state' = [state EXCEPT !.prompt = val]
    /\ UNCHANGED <<showLayersPanel, toolVars, cropVars, imageDimensions, viewVars,
                   isDraggingLayer, pending, tasks, now>>

AIFailedFromClosure(prev, closure, message) ==
    [closure EXCEPT !.status = "error", !.errorMessage = message]

AIFailed(prev, closure, message) ==
    [prev EXCEPT !.status = "error", !.errorMessage = message]

handleArtisticFilter(label) ==
    /\ EditToolbarShown /\ PointerFree
    /\ state.status # "loading"
    /\ state.uploadedImage # NoImage
    /\ Len(tasks) < MaxTasks
    /\ state' = [state EXCEPT !.status = "loading", !.errorMessage = NoMessage]
    /\ tasks' = Append(tasks, [kind |-> "style", closure |-> state,
                               dims |-> imageDimensions, label |-> label])
    /\ UNCHANGED <<showLayersPanel, toolVars, cropVars, imageDimensions, viewVars,
                   isDraggingLayer, pending, now>>

StyleResolved(i) ==
    /\ i \in 1..Len(tasks)
    /\ tasks[i].kind = "style"
    /\ LET composite == composeLayers(tasks[i].closure.layers,
                                      ComposeWidth(tasks[i].dims),
                                      ComposeHeight(tasks[i].dims))
       IN  state' = [state EXCEPT !.status = "success",
                                  !.resultImage = editImage(composite, tasks[i].label),
                                  !.prompt = "Style: " \o tasks[i].label]
    /\ tasks' = RemoveAt(tasks, i)
    /\ UNCHANGED <<showLayersPanel, toolVars, cropVars, imageDimensions, viewVars,
                   isDraggingLayer, pending, now>>

StyleFailed(i, message) ==
    /\ i \in 1..Len(tasks)
    /\ tasks[i].kind = "style"
    /\ state' = AIFailed(state, tasks[i].closure, message)
    /\ tasks' = RemoveAt(tasks, i)
    /\ UNCHANGED <<showLayersPanel, toolVars, cropVars, imageDimensions, viewVars,
                   isDraggingLayer, pending, now>>

handleAIAction ==
    /\ PromptShown /\ PointerFree
    /\ state.status # "loading"
    /\ state.prompt # ""
    /\ Len(tasks) < MaxTasks
    /\ state' = [state EXCEPT !.status = "loading", !.errorMessage = NoMessage]
    /\ tasks' = IF state.mode = "GENERATE"
                THEN Append(tasks, [kind |-> "generate", closure |-> state])
                ELSE IF state.mode = "ANALYZE" /\ state.uploadedImage # NoImage
                     THEN Append(tasks, [kind |-> "analyze", closure |-> state])
                     ELSE tasks
    /\ UNCHANGED <<showLayersPanel, toolVars, cropVars, imageDimensions, viewVars,
                   isDraggingLayer, pending, now>>

AIActionResolved(i) ==
    /\ i \in 1..Len(tasks)
    /\ tasks[i].kind \in {"generate", "analyze"}
    /\ state' = IF tasks[i].kind = "generate"
                THEN [state EXCEPT !.status = "success",
                                   !.resultImage = generateImage(tasks[i].closure.prompt)]
                ELSE [state EXCEPT !.status = "idle"]
    /\ tasks' = RemoveAt(tasks, i)
    /\ UNCHANGED <<showLayersPanel, toolVars, cropVars, imageDimensions, viewVars,
                   isDraggingLayer, pending, now>>

AIActionFailed(i, message) ==
    /\ i \in 1..Len(tasks)
    /\ tasks[i].kind \in {"generate", "analyze"}
    /\ state' = AIFailed(state, tasks[i].closure, message)
    /\ tasks' = RemoveAt(tasks, i)
    /\ UNCHANGED <<showLayersPanel, toolVars, cropVars, imageDimensions, viewVars,
                   isDraggingLayer, pending, now>>

DismissError ==
    /\ state.errorMessage # NoMessage /\ PointerFree
    /\ state' = [state EXCEPT !.errorMessage = NoMessage]
    /\ UNCHANGED <<showLayersPanel, toolVars, cropVars, imageDimensions, viewVars,
                   isDraggingLayer, pending, tasks, now>>

NextAI ==
    \/ \E mode \in Modes : handleModeChange(mode)
    \/ \E dataUri \in DataUris : UploadFile(dataUri)
    \/ \E t \in 0..MaxClock : handleAddText(t)
    \/ \E val \in Prompts : PromptTyped(val)
    \/ \E label \in StyleLabels : handleArtisticFilter(label)
    \/ \E i \in 1..MaxTasks : StyleResolved(i)
    \/ \E i \in 1..MaxTasks, message \in ServiceMessages : StyleFailed(i, message)
    \/ handleAIAction
    \/ \E i \in 1..MaxTasks : AIActionResolved(i)
    \/ \E i \in 1..MaxTasks, message \in ServiceMessages : AIActionFailed(i, message)
    \/ DismissError

SpecAI == Init /\ [][NextAI]_vars

(***************************************************************************)
(* The same session when every awaited call of the service (and the        *)
(* compose before it) settles in the end, one way or the other.  What the  *)
(* user does next is left open: no click is bound to happen.               *)
(***************************************************************************)
AwaitedCallSettles ==
    \/ \E i \in 1..MaxTasks : StyleResolved(i)
    \/ \E i \in 1..MaxTasks, message \in ServiceMessages : StyleFailed(i, message)
    \/ \E i \in 1..MaxTasks : AIActionResolved(i)
    \/ \E i \in 1..MaxTasks, message \in ServiceMessages : AIActionFailed(i, message)

SpecAISettling == Init /\ [][NextAI]_vars /\ WF_vars(AwaitedCallSettles)

(***************************************************************************)
(* The result view, shown in every mode while there is a result image:     *)
(* "Keep as Layer" calls handleAddImageLayer(state.resultImage) and then   *)
(* clears the result; "Discard" clears it.                                 *)
(***************************************************************************)
ResultShown == state.resultImage # NoImage

KeepAsLayer(t) ==
    /\ ResultShown /\ PointerFree
    /\ Len(state.layers) < MaxLayers
    /\ RoomToSnapshot(state)
    /\ t \in ClockReads
    /\ now' = t
    /\ state' = [LayerAdded(state, ImageLayer(state.resultImage, t,
                                              Len(state.layers) + 1))
                    EXCEPT !.resultImage = NoImage]
    /\ pending' = captureHistorySnapshot(state, imageDimensions, pending)
    /\ UNCHANGED <<showLayersPanel, toolVars, cropVars, imageDimensions, viewVars,
                   isDraggingLayer, tasks>>

DiscardResult ==
    /\ ResultShown /\ PointerFree
    /\ state' = [state EXCEPT !.resultImage = NoImage]
    /\ UNCHANGED <<showLayersPanel, toolVars, cropVars, imageDimensions, viewVars,
                   isDraggingLayer, pending, tasks, now>>

(***************************************************************************)
(* Generating and keeping results: the three modes, uploads, the prompt,   *)
(* the generation and its result, the two buttons of the result view, the  *)
(* Delete key.  The snapshots stay in flight.                              *)
(***************************************************************************)
NextKeep ==
    \/ \E mode \in Modes : handleModeChange(mode)
    \/ \E dataUri \in DataUris : UploadFile(dataUri)
    \/ \E val \in Prompts : PromptTyped(val)
    \/ handleAIAction
    \/ \E i \in 1..MaxTasks : AIActionResolved(i)
    \/ \E t \in 0..MaxClock : KeepAsLayer(t)
    \/ DiscardResult
    \/ KeyDelete

SpecKeep == Init /\ [][NextKeep]_vars

(***************************************************************************)
(* composeLayers step by step, as handleDownload runs it in EDIT mode.     *)
(* The loop takes the layers bottom to top; it runs without interruption   *)
(* up to the next await of loadImage (hidden layers are passed over, text  *)
(* layers are drawn at once), resumes when that image has decoded or       *)
(* failed, and after the last layer the composite is downloaded.  A task   *)
(* records the layers it was given, the loop's order, the position it      *)
(* waits at and the stack indices drawn so far.  When getContext gives no  *)
(* context the promise is rejected before the loop and nothing is          *)
(* downloaded: a step that changes nothing.                                *)
(***************************************************************************)
LoopOrderTopDown(ls) == [i \in 1..Len(ls) |-> Len(ls) + 1 - i]

LoopOrder(ls) == [i \in 1..Len(ls) |-> i]

RECURSIVE RunToAwait(_, _, _, _)
RunToAwait(ls, order, at, drawn) ==
    IF at > Len(order) THEN [at |-> at, drawn |-> drawn]
    ELSE LET l == ls[order[at]]
         IN  IF ~l.visible THEN RunToAwait(ls, order, at + 1, drawn)
             ELSE IF l.type \in {"image", "drawing"}
                  THEN IF l.src # NoImage THEN [at |-> at, drawn |-> drawn]
                       ELSE RunToAwait(ls, order, at + 1, drawn)
                  ELSE IF l.type = "text" /\ l.text # ""
                       THEN RunToAwait(ls, order, at + 1, Append(drawn, order[at]))
                       ELSE RunToAwait(ls, order, at + 1, drawn)

ComposeTask(ls, width, height, run) ==
    [kind |-> "compose", layers |-> ls, width |-> width, height |-> height,
     order |-> LoopOrder(ls), at |-> run.at, drawn |-> run.drawn]

Composite(task) ==
    <<"composite", [j \in 1..Len(task.drawn) |-> task.layers[task.drawn[j]]],
      task.width, task.height>>

handleDownload ==
    /\ PointerFree
    /\ state.resultImage = NoImage
    /\ state.mode = "EDIT" /\ Len(state.layers) > 0
    /\ imageDimensions # NoDimensions
    /\ Len(tasks) < MaxTasks
    /\ tasks' = Append(tasks,
                   ComposeTask(state.layers, imageDimensions.naturalWidth,
                               imageDimensions.naturalHeight,
                               RunToAwait(state.layers, LoopOrder(state.layers),
                                          1, <<>>)))
    /\ UNCHANGED <<state, showLayersPanel, toolVars, cropVars, imageDimensions,
                   viewVars, isDraggingLayer, pending, now>>

ImageDecoded(i) ==
    /\ i \in 1..Len(tasks)
    /\ tasks[i].kind = "compose"
    /\ tasks[i].at <= Len(tasks[i].order)
    /\ LET task == tasks[i]
           k == task.order[task.at]
           drawn == IF Decodes(task.layers[k].src)
                    THEN Append(task.drawn, k) ELSE task.drawn
       IN  tasks' = [tasks EXCEPT ![i] =
                        ComposeTask(task.layers, task.width, task.height,
                                    RunToAwait(task.layers, task.order,
                                               task.at + 1, drawn))]
    /\ UNCHANGED <<state, showLayersPanel, toolVars, cropVars, imageDimensions,
                   viewVars, isDraggingLayer, pending, now>>

DownloadComposite(i) ==
    /\ i \in 1..Len(tasks)
    /\ tasks[i].kind = "compose"
    /\ tasks[i].at > Len(tasks[i].order)
    /\ tasks' = RemoveAt(tasks, i)
    /\ UNCHANGED <<state, showLayersPanel, toolVars, cropVars, imageDimensions,
                   viewVars, isDraggingLayer, pending, now>>

NextDraw ==
    \/ handleModeChange("EDIT")
    \/ \E dataUri \in DataUris : UploadFile(dataUri)
    \/ \E k \in DisplayDivisors : handleImageLoad(k)
    \/ \E dataUri \in LayerUris \cup BrokenUris, t \in 0..MaxClock :
          PanelAddImageLayer(dataUri, t)
    \/ \E t \in 0..MaxClock : handleAddText(t)
    \/ \E i \in 1..MaxLayers : PanelToggleVisible(i)
    \/ \E i \in 1..MaxPending : SnapshotReject(i)
    \/ handleDownload
    \/ \E i \in 1..MaxTasks : ImageDecoded(i)
    \/ \E i \in 1..MaxTasks : DownloadComposite(i)

SpecDraw == Init /\ [][NextDraw]_vars

(***************************************************************************)
(* The canvas calls of one pass of the loop of composeLayers.  The current *)
(* transform of the 2D context is the matrix                               *)
(*     x' = a x + c y + e,   y' = b x + d y + f;                           *)
(* ctx.translate and ctx.rotate multiply it on the right, and drawImage    *)
(* and fillText put their argument point through it.  ctx.save and         *)
(* ctx.restore give every layer the identity to start from.  Rotations are *)
(* whole degrees (the slider's values); the quarter turns have exact       *)
(* sines and cosines.                                                      *)
(***************************************************************************)
Rotations == {0, 90, -90, 180}

Cos(deg) == CASE deg = 0 -> 1 [] deg = 180 -> -1 [] OTHER -> 0

Sin(deg) == CASE deg = 90 -> 1 [] deg = -90 -> -1 [] OTHER -> 0

IdentityTransform ==
    [a |-> Num(1), b |-> Num(0), c |-> Num(0), d |-> Num(1),
     e |-> Num(0), f |-> Num(0)]

translate(m, tx, ty) ==
    [m EXCEPT !.e = RatAdd(RatAdd(RatMul(m.a, tx), RatMul(m.c, ty)), m.e),
              !.f = RatAdd(RatAdd(RatMul(m.b, tx), RatMul(m.d, ty)), m.f)]

rotate(m, deg) ==
    LET cos == Num(Cos(deg))
        sin == Num(Sin(deg))
    IN  [m EXCEPT !.a = RatAdd(RatMul(m.a, cos), RatMul(m.c, sin)),
                  !.b = RatAdd(RatMul(m.b, cos), RatMul(m.d, sin)),
                  !.c = RatSub(RatMul(m.c, cos), RatMul(m.a, sin)),
                  !.d = RatSub(RatMul(m.d, cos), RatMul(m.b, sin))]

TransformPoint(m, p) ==
    [x |-> RatAdd(RatAdd(RatMul(m.a, p.x), RatMul(m.c, p.y)), m.e),
     y |-> RatAdd(RatAdd(RatMul(m.b, p.x), RatMul(m.d, p.y)), m.f)]

Half(q) == RatDiv(q, Num(2))

Neg(q) == RatSub(Num(0), q)

(***************************************************************************)
(* (layer.width || img.width) * layer.scale, and the same for the height.  *)
(***************************************************************************)
LayerBox(l) ==
    LET img == ImageSize(l.src)
        width == IF "width" \in DOMAIN l /\ l.width # 0 THEN l.width ELSE img.w
        height == IF "height" \in DOMAIN l /\ l.height # 0 THEN l.height ELSE img.h
    IN  [w |-> RatMul(Num(width), l.scale), h |-> RatMul(Num(height), l.scale)]

DrawImageAboutCorner(l) ==
    LET box == LayerBox(l)
    IN  [call |-> "drawImage",
         transform |-> IF l.rotation # 0
                       THEN rotate(translate(IdentityTransform, l.x, l.y),
                                   l.rotation)
                       ELSE IdentityTransform,
         at |-> IF l.rotation # 0 THEN [x |-> Num(0), y |-> Num(0)]
                ELSE [x |-> l.x, y |-> l.y],
         w |-> box.w, h |-> box.h]

DrawImage(l) ==
    LET box == LayerBox(l)
        cx == RatAdd(l.x, Half(box.w))
        cy == RatAdd(l.y, Half(box.h))
    IN  [call |-> "drawImage",
         transform |-> IF l.rotation # 0
                       THEN translate(rotate(translate(IdentityTransform, cx, cy),
                                             l.rotation),
                                      Neg(cx), Neg(cy))
                       ELSE IdentityTransform,
         at |-> [x |-> l.x, y |-> l.y],
         w |-> box.w, h |-> box.h]

FillText(l) ==
    [call |-> "fillText",
     transform |-> IF l.rotation # 0
                   THEN rotate(translate(IdentityTransform, l.x, l.y), l.rotation)
                   ELSE IdentityTransform,
     at |-> IF l.rotation # 0 THEN [x |-> Num(0), y |-> Num(0)]
            ELSE [x |-> l.x, y |-> l.y],
     text |-> l.text]

CanvasCall(l) ==
    IF l.type \in {"image", "drawing"} THEN DrawImage(l) ELSE FillText(l)

CanvasCalls(task) ==
    [j \in 1..Len(task.drawn) |-> CanvasCall(task.layers[task.drawn[j]])]

(***************************************************************************)
(* composeLayers as a function of its arguments: the stacks it is given    *)
(* hold a text layer, an image or drawing layer, or one of each, at either *)
(* of two positions, turned by any of the rotations, with or without an    *)
(* explicit width and height, at scale 1 or 1/2, from a file that decodes  *)
(* or one that does not.  The call starts the loop; the loop then goes on  *)
(* as the images decode.                                                   *)
(***************************************************************************)
Placements == {Point(0, 0), Point(50, 30)}

Boxes == {[width |-> 300, height |-> 200]}

Scales == {Num(1), Rat(1, 2)}

Placed(l, at, deg, scale) ==
    [l EXCEPT !.x = at.x, !.y = at.y, !.rotation = deg, !.scale = scale]

Unboxed(l) == [k \in DOMAIN l \ {"width", "height"} |-> l[k]]

Boxed(l, box) == box @@ Unboxed(l)

ComposedTextLayers ==
    LET placed == {Placed(TextLayer(0), at, deg, scale) :
                      at \in Placements, deg \in Rotations, scale \in Scales}
    IN  placed \cup {Boxed(l, box) : l \in placed, box \in Boxes}

ComposedImageLayers ==
    LET placed == {Placed(l, at, deg, scale) :
                      l \in {ImageLayer(<<"data", "B">>, 1, 1),
                             ImageLayer(<<"data", "X">>, 1, 1),
                             DrawingLayer(<<"data", "B">>, 1,
                                          [naturalWidth |-> 120,
                                           naturalHeight |-> 120])},
                      at \in Placements, deg \in Rotations, scale \in Scales}
    IN  {Unboxed(l) : l \in placed} \cup {Boxed(l, box) : l \in placed, box \in Boxes}

ComposedStacks ==
    {<<l>> : l \in ComposedTextLayers \cup ComposedImageLayers}
        \cup {<<t, m>> : t \in ComposedTextLayers, m \in ComposedImageLayers}

composeLayersCalled(ls) ==
    tasks = <<ComposeTask(ls, 800, 800, RunToAwait(ls, LoopOrder(ls), 1, <<>>))>>

InitCanvas ==
    /\ \E ls \in ComposedStacks : composeLayersCalled(ls)
    /\ state = [mode |-> "GENERATE",
                status |-> "idle",
                layers |-> <<>>,
                activeLayerId |-> NoLayerId,
                uploadedImage |-> NoImage,
                resultImage |-> NoImage,
                prompt |-> "",
                errorMessage |-> NoMessage,
                editHistory |-> <<>>,
                currentHistoryIndex |-> -1]
    /\ showLayersPanel = FALSE
    /\ showAdjustments = FALSE
    /\ showBrushTools = FALSE
    /\ brushCanvas = 0
    /\ isDrawing = FALSE
    /\ showCropTools = FALSE
    /\ showTextTools = FALSE
    /\ cropSelection = NoSelection
    /\ isSelectingCrop = FALSE
    /\ cropStartRef = [x |-> Num(0), y |-> Num(0)]
    /\ imageDimensions = NoDimensions
    /\ zoom = Num(1)
    /\ pan = [x |-> Num(0), y |-> Num(0)]
    /\ isDragging = FALSE
    /\ isDraggingLayer = FALSE
    /\ dragStart = [x |-> Num(0), y |-> Num(0)]
    /\ pending = <<>>
    /\ now = 0

NextCanvas ==
    \/ \E i \in 1..MaxTasks : ImageDecoded(i)
    \/ \E i \in 1..MaxTasks : DownloadComposite(i)

SpecCanvas == InitCanvas /\ [][NextCanvas]_vars

(***************************************************************************)
(* generateImage of the Gemini service, call by call.  A task records the  *)
(* arguments, the models called so far with the answer each gave, where    *)
(* the function stands (awaiting Imagen, awaiting Flash, returned, thrown) *)
(* and what it returned or threw.  An answer carries image bytes (empty    *)
(* when the response holds no image) or the message of the error the call  *)
(* rejected with.                                                          *)
(***************************************************************************)
AspectRatios == {"1:1", "16:9", "9:16", "4:3", "3:4"}

Resolutions == {"low", "medium", "high"}

GeneratePrompts == {"p", "q"}

Imagen == "imagen-4.0-generate-001"

FlashImage == "gemini-2.5-flash-image"

ModelAnswers ==
    {[bytes |-> "b"], [bytes |-> ""], [error |-> "quota"], [error |-> ""]}

HasImage(answer) == "bytes" \in DOMAIN answer /\ answer.bytes # ""

NoImageMessage == "No image returned from generation operation."

GenerateFallbackMessage ==
    "Failed to generate image. Please check your API key and quota."

GenerateCall(prompt, aspectRatio, resolution, calls, answers, at, outcome) ==
    [kind |-> "generateImage", prompt |-> prompt, aspectRatio |-> aspectRatio,
     resolution |-> resolution, calls |-> calls, answers |-> answers,
     at |-> at, outcome |-> outcome]

generateImageCalled(prompt, aspectRatio, resolution) ==
    tasks = <<GenerateCall(prompt, aspectRatio, resolution,
                           IF resolution = "high"
                           THEN <<[model |-> Imagen, prompt |-> prompt]>>
                           ELSE <<[model |-> FlashImage,
                                   prompt |-> <<prompt, aspectRatio>>]>>,
                           <<>>, "await", NoMessage)>>

ImagenAnsweredWithoutFallback(task, answer) ==
    IF HasImage(answer)
    THEN [task EXCEPT !.answers = Append(@, answer), !.at = "returned",
                      !.outcome = <<"data:image/jpeg", answer.bytes>>]
    ELSE [task EXCEPT !.answers = Append(@, answer), !.at = "thrown",
                      !.outcome = IF "error" \in DOMAIN answer
                                  THEN answer.error ELSE "No image generated."]

ImagenAnswered(task, answer) ==
    IF HasImage(answer)
    THEN [task EXCEPT !.answers = Append(@, answer), !.at = "returned",
                      !.outcome = <<"data:image/jpeg", answer.bytes>>]
    ELSE [task EXCEPT !.answers = Append(@, answer),
                      !.calls = Append(@, [model |-> FlashImage,
                                           prompt |-> <<task.prompt,
                                                        task.aspectRatio>>])]

FlashAnswered(task, answer) ==
    IF HasImage(answer)
    THEN [task EXCEPT !.answers = Append(@, answer), !.at = "returned",
                      !.outcome = <<"data:image/png", answer.bytes>>]
    ELSE [task EXCEPT !.answers = Append(@, answer), !.at = "thrown",
                      !.outcome =
                          IF "error" \in DOMAIN answer
                          THEN IF answer.error # "" THEN answer.error
                               ELSE GenerateFallbackMessage
                          ELSE NoImageMessage]

Awaits(i, model) ==
    /\ i \in 1..Len(tasks)
    /\ tasks[i].kind = "generateImage"
    /\ tasks[i].at = "await"
    /\ tasks[i].calls[Len(tasks[i].calls)].model = model

ImagenResponds(i, answer) ==
    /\ Awaits(i, Imagen)
    /\ tasks' = [tasks EXCEPT ![i] = ImagenAnswered(tasks[i], answer)]
    /\ UNCHANGED <<state, showLayersPanel, toolVars, cropVars, imageDimensions,
                   viewVars, isDraggingLayer, pending, now>>

FlashResponds(i, answer) ==
    /\ Awaits(i, FlashImage)
    /\ tasks' = [tasks EXCEPT ![i] = FlashAnswered(tasks[i], answer)]
    /\ UNCHANGED <<state, showLayersPanel, toolVars, cropVars, imageDimensions,
                   viewVars, isDraggingLayer, pending, now>>

InitGenerate ==
    /\ \E prompt \in GeneratePrompts, aspectRatio \in AspectRatios,
          resolution \in Resolutions :
          generateImageCalled(prompt, aspectRatio, resolution)
    /\ state = [mode |-> "GENERATE",
                status |-> "idle",
                layers |-> <<>>,
                activeLayerId |-> NoLayerId,
                uploadedImage |-> NoImage,
                resultImage |-> NoImage,
                prompt |-> "",
                errorMessage |-> NoMessage,
                editHistory |-> <<>>,
                currentHistoryIndex |-> -1]
    /\ showLayersPanel = FALSE
    /\ showAdjustments = FALSE
    /\ showBrushTools = FALSE
    /\ brushCanvas = 0
    /\ isDrawing = FALSE
    /\ showCropTools = FALSE
    /\ showTextTools = FALSE
    /\ cropSelection = NoSelection
    /\ isSelectingCrop = FALSE
    /\ cropStartRef = [x |-> Num(0), y |-> Num(0)]
    /\ imageDimensions = NoDimensions
    /\ zoom = Num(1)
    /\ pan = [x |-> Num(0), y |-> Num(0)]
    /\ isDragging = FALSE
    /\ isDraggingLayer = FALSE
    /\ dragStart = [x |-> Num(0), y |-> Num(0)]
    /\ pending = <<>>
    /\ now = 0

NextGenerate ==
    \/ \E i \in 1..MaxTasks, answer \in ModelAnswers : ImagenResponds(i, answer)
    \/ \E i \in 1..MaxTasks, answer \in ModelAnswers : FlashResponds(i, answer)

SpecGenerate == InitGenerate /\ [][NextGenerate]_vars

(***************************************************************************)
(* Composing stacks that hold undecodable images, and composes that are    *)
(* rejected: uploads and added image layers of good and broken files, text *)
(* layers, the eye button, and the settling of the snapshots either way.   *)
(***************************************************************************)
NextCompose ==
    \/ handleModeChange("EDIT")
    \/ \E dataUri \in DataUris \cup BrokenUris : UploadFile(dataUri)
    \/ \E dataUri \in LayerUris \cup BrokenUris, t \in 0..MaxClock :
          PanelAddImageLayer(dataUri, t)
    \/ \E t \in 0..MaxClock : handleAddText(t)
    \/ \E i \in 1..MaxLayers : PanelToggleVisible(i)
    \/ \E i \in 1..MaxPending : SnapshotResolve(i)
    \/ \E i \in 1..MaxPending : SnapshotReject(i)

SpecCompose == Init /\ [][NextCompose]_vars

(***************************************************************************)
(* The steps in which a handler edits the layer stack.                     *)
(***************************************************************************)
LayerEditStep ==
    \/ \E t \in 0..MaxClock : handleAddText(t)
    \/ PanelDeleteLayer
    \/ KeyDelete
    \/ PanelMoveDown
    \/ \E i \in 1..MaxLayers : PanelToggleVisible(i)
    \/ \E movement \in Movements, client \in Pointers : handleMouseMove(movement, client)

(***************************************************************************)
(* C1: whenever editHistory is non-empty, currentHistoryIndex is an index  *)
(* of it: 0 <= currentHistoryIndex < editHistory.length.                   *)
(***************************************************************************)
IndexInRange ==
    Len(state.editHistory) > 0 =>
        /\ 0 <= state.currentHistoryIndex
        /\ state.currentHistoryIndex < Len(state.editHistory)

(* An undo has moved the index below the end of a two-entry timeline.      *)
IndexInRangeWitness ==
    /\ Len(state.editHistory) = 2
    /\ state.currentHistoryIndex = 0
    /\ Len(pending) > 0

(***************************************************************************)
(* C2: whenever undo is available (currentHistoryIndex > 0), handleUndo    *)
(* followed at once by handleRedo gives back the live layer stack as it    *)
(* was before the undo.                                                    *)
(***************************************************************************)
UndoRedoRestoresLayers ==
    state.currentHistoryIndex > 0 => Redone(Undone(state)).layers = state.layers

(***************************************************************************)
(* C3: when redo is available (after an undo) and a new layer is added,    *)
(* the snapshots beyond the current one are discarded: redo is no longer   *)
(* available once the action has been performed.                           *)
(***************************************************************************)
NewActionDiscardsRedo ==
    [][((\E t \in 0..MaxClock : handleAddText(t)) /\ CanRedo) => ~CanRedo']_vars

(***************************************************************************)
(* C4: every step in which a handler changes the layer stack (add, delete, *)
(* reorder, update of a layer's fields, drag) requests exactly one         *)
(* snapshot.                                                               *)
(***************************************************************************)
SnapshotPerLayerChange ==
    [][(LayerEditStep /\ state'.layers # state.layers)
           => Len(pending') = Len(pending) + 1]_vars

ComposeSuperseded ==
    IF Len(pending) >= 2 THEN SelectSeq(state.layers, Drawn) # pending[2][2] ELSE FALSE

StaleComposeDropped ==
    [][(ComposeSuperseded /\ SnapshotResolve(1))
           => state'.editHistory = state.editHistory]_vars

(***************************************************************************)
(* C7: undo and redo never take effect while a snapshot is between its     *)
(* request and the append of its entry.                                    *)
(***************************************************************************)
TimelineOpsExclusive ==
    [][(handleUndo \/ handleRedo) => pending = <<>>]_vars

(***************************************************************************)
(* C8: once a crop has been applied (one layer, the cropped image; one     *)
(* snapshot; index 0) the editor stays so while the user performs no       *)
(* layer-affecting action: a compose that was in flight when the crop was  *)
(* applied does not change it when it resolves.                            *)
(***************************************************************************)
CropReset ==
    /\ Len(state.layers) = 1
    /\ state.uploadedImage[1] = "crop"
    /\ Len(state.editHistory) = 1
    /\ state.currentHistoryIndex = 0

CropResetStable ==
    [][(CropReset /\ \E i \in 1..MaxPending : SnapshotResolve(i)) => CropReset']_vars

(***************************************************************************)
(* C9: right after handleImageUpload (a file upload or a resolved crop)    *)
(* layers is exactly the base layer, locked at x = 0, y = 0, rotation = 0, *)
(* scale = 1, editHistory has exactly one entry whose layers are exactly   *)
(* that base layer, and currentHistoryIndex = 0.                           *)
(***************************************************************************)
UploadReset ==
    /\ Len(state.layers) = 1
    /\ state.layers[1].id = <<"layer-base">>
    /\ state.layers[1].src = state.uploadedImage
    /\ state.layers[1].locked
    /\ state.layers[1].x = <<0, 1>> /\ state.layers[1].y = <<0, 1>>
    /\ state.layers[1].rotation = 0 /\ state.layers[1].scale = <<1, 1>>
    /\ Len(state.editHistory) = 1
    /\ state.editHistory[1].layers = state.layers
    /\ state.currentHistoryIndex = 0

UploadResetsEditor ==
    [][((\E dataUri \in DataUris : UploadFile(dataUri))
            \/ (\E i \in 1..MaxTasks : CropResolved(i))) => UploadReset']_vars

(* A crop has reset an editor in which a text layer had been added.        *)
UploadResetsEditorWitness ==
    /\ UploadReset
    /\ state.uploadedImage[1] = "crop"
    /\ showTextTools
    /\ pending = <<>>

(***************************************************************************)
(* C10: apply crop multiplies x and width of the selection by              *)
(* naturalWidth / displayed width and y and height by naturalHeight /      *)
(* displayed height; the selection {10, 10, 50, 50} on an image shown at   *)
(* half its natural size gives the crop rectangle {20, 20, 100, 100}.      *)
(***************************************************************************)
CropMapsToNatural ==
    [][applyCurrentCrop =>
          LET crop == tasks'[Len(tasks')].crop
              sel == cropSelection
              dims == imageDimensions
          IN  /\ RatMul(crop.x, <<dims.width, 1>>) = RatMul(sel.x, <<dims.naturalWidth, 1>>)
              /\ RatMul(crop.width, <<dims.width, 1>>) = RatMul(sel.width, <<dims.naturalWidth, 1>>)
              /\ RatMul(crop.y, <<dims.height, 1>>) = RatMul(sel.y, <<dims.naturalHeight, 1>>)
              /\ RatMul(crop.height, <<dims.height, 1>>) = RatMul(sel.height, <<dims.naturalHeight, 1>>)
              /\ (/\ sel = [x |-> <<10, 1>>, y |-> <<10, 1>>,
                           width |-> <<50, 1>>, height |-> <<50, 1>>]
                  /\ dims.naturalWidth = 2 * dims.width
                  /\ dims.naturalHeight = 2 * dims.height)
                 => crop = [x |-> <<20, 1>>, y |-> <<20, 1>>,
                            width |-> <<100, 1>>, height |-> <<100, 1>>]]_vars

(* The selection {10, 10, 50, 50} at half size has been applied.           *)
CropMapsToNaturalWitness ==
    /\ Len(tasks) = 1
    /\ tasks[1].crop = [x |-> <<20, 1>>, y |-> <<20, 1>>,
                        width |-> <<100, 1>>, height |-> <<100, 1>>]
    /\ cropSelection = [x |-> <<10, 1>>, y |-> <<10, 1>>,
                        width |-> <<50, 1>>, height |-> <<50, 1>>]
    /\ imageDimensions # NoDimensions

(***************************************************************************)
(* C11: apply crop cuts the new image from the image of the base layer     *)
(* (the layer created by the upload) of the live stack, and only from it.  *)
(***************************************************************************)
CropCutsBaseLayerImage ==
    [][(applyCurrentCrop /\ HasLayer(state.layers, <<"layer-base">>))
           => tasks'[Len(tasks')].image = FindLayer(state.layers, <<"layer-base">>).src]_vars

(***************************************************************************)
(* C12: no two layers of the live stack share an id.                       *)
(***************************************************************************)
LayerIdsUnique ==
    \A i \in 1..Len(state.layers) : \A j \in 1..Len(state.layers) :
        i # j => state.layers[i].id # state.layers[j].id

(***************************************************************************)
(* C13: activeLayerId is null or the id of a layer of the live stack.      *)
(***************************************************************************)
ActiveLayerInStack ==
    state.activeLayerId = <<>> \/ HasLayer(state.layers, state.activeLayerId)

(***************************************************************************)
(* C14: a non-empty live stack has the base layer at index 0: the layer    *)
(* created by the upload, locked, at position 0,0 with rotation 0 and      *)
(* scale 1.                                                                *)
(***************************************************************************)
BaseLayerAtIndexZero ==
    Len(state.layers) > 0 =>
        /\ state.layers[1].id = <<"layer-base">>
        /\ state.layers[1].locked
        /\ state.layers[1].x = <<0, 1>> /\ state.layers[1].y = <<0, 1>>
        /\ state.layers[1].rotation = 0 /\ state.layers[1].scale = <<1, 1>>

(***************************************************************************)
(* C15: at most one of brush mode, crop mode and text editing is on.       *)
(***************************************************************************)
ToolModesExclusive ==
    /\ ~(showBrushTools /\ showCropTools)
    /\ ~(showBrushTools /\ showTextTools)
    /\ ~(showCropTools /\ showTextTools)

(***************************************************************************)
(* C18: the view zoom always lies in [0.5, 5].                             *)
(***************************************************************************)
ZoomInRange ==
    /\ ~RatLess(zoom, <<1, 2>>)
    /\ ~RatLess(<<5, 1>>, zoom)

(* The zoom has been driven off the half-step grid by the wheel and up to  *)
(* the upper end by the zoom control.                                      *)
ZoomInRangeWitness ==
    /\ zoom = <<5, 1>>
    /\ state.mode = "EDIT"

(***************************************************************************)
(* C16: no pointer-down, pointer-move or pointer-up step changes the x or  *)
(* y of a layer that is locked.                                            *)
(***************************************************************************)
PointerStep ==
    \/ \E i \in 1..MaxLayers : handleLayerMouseDown(i)
    \/ \E movement \in Movements, client \in Pointers : handleMouseMove(movement, client)
    \/ handleMouseUp

LockedLayersNotDragged ==
    [][PointerStep =>
          \A i \in 1..Len(state.layers) :
              state.layers[i].locked =>
                  /\ state'.layers[i].x = state.layers[i].x
                  /\ state'.layers[i].y = state.layers[i].y]_vars

(***************************************************************************)
(* C17: a pointer move that drags the active, unlocked layer by the screen *)
(* delta (dx, dy) at zoom z adds (dx/z, dy/z) to the (x, y) of that one    *)
(* layer, leaves every other layer and every other field of the state as   *)
(* it was, and leaves zoom and pan alone; at zoom 2 the position changes   *)
(* by (dx/2, dy/2).                                                        *)
(***************************************************************************)
DraggingActiveLayer ==
    /\ ~(showBrushTools \/ showCropTools)
    /\ isDraggingLayer
    /\ editingTextId = NoLayerId
    /\ HasLayer(state.layers, state.activeLayerId)
    /\ ~FindLayer(state.layers, state.activeLayerId).locked

MovedBy(l, movement, z) ==
    [l EXCEPT !.x = RatAdd(@, RatDiv(Num(movement.x), z)),
              !.y = RatAdd(@, RatDiv(Num(movement.y), z))]

DragMovesOnlyActiveLayer ==
    [][\A movement \in Movements, client \in Pointers :
          (DraggingActiveLayer /\ handleMouseMove(movement, client)) =>
             /\ \E k \in 1..Len(state.layers) :
                   /\ state.layers[k].id = state.activeLayerId
                   /\ state' = [state EXCEPT
                                  !.layers[k] = MovedBy(@, movement, zoom)]
             /\ zoom = Num(2) =>
                   \E k \in 1..Len(state.layers) :
                      /\ state'.layers[k].x =
                            RatAdd(state.layers[k].x, Rat(movement.x, 2))
                      /\ state'.layers[k].y =
                            RatAdd(state.layers[k].y, Rat(movement.y, 2))
             /\ zoom' = zoom /\ pan' = pan]_vars

(***************************************************************************)
(* C19: when a compose is started on a stack in which an image or drawing  *)
(* layer fails to decode, the compose still yields a composite, and the    *)
(* layers drawn on it are, in stack order, exactly the visible layers with *)
(* content other than the ones that failed to decode.                      *)
(***************************************************************************)
HasContent(l) ==
    /\ l.visible
    /\ \/ l.type \in {"image", "drawing"} /\ l.src # NoImage
       \/ l.type = "text" /\ l.text # ""

ComposeStartedWithFailure ==
    /\ Len(pending') = Len(pending) + 1
    /\ \E i \in 1..Len(state.layers) : DecodeFails(state.layers[i])

ComposeSkipsOnlyFailedLayers ==
    [][ComposeStartedWithFailure =>
          LET composite == pending'[Len(pending')]
              ls == state.layers
          IN  /\ composite[1] = "composite"
              /\ \E f \in [1..Len(composite[2]) -> 1..Len(ls)] :
                    /\ \A j, k \in 1..Len(composite[2]) : j < k => f[j] < f[k]
                    /\ \A j \in 1..Len(composite[2]) : composite[2][j] = ls[f[j]]
                    /\ \A i \in 1..Len(ls) :
                          (\E j \in 1..Len(composite[2]) : f[j] = i)
                             <=> (HasContent(ls[i]) /\ ~DecodeFails(ls[i]))]_vars

ComposeSkipsOnlyFailedLayersWitness ==
    \E k, m \in 1..Len(state.layers) :
       /\ k < m
       /\ DecodeFails(state.layers[k])
       /\ \E i \in 1..Len(pending) :
             /\ Len(pending[i][2]) >= 1
             /\ pending[i][2][Len(pending[i][2])] = state.layers[m]
             /\ \A j \in 1..Len(pending[i][2]) : ~DecodeFails(pending[i][2][j])

(***************************************************************************)
(* C20: when a compose is rejected for want of a drawing context, the      *)
(* layer stack and the history timeline stay as they were: no entry is     *)
(* appended and currentHistoryIndex keeps its value.                       *)
(***************************************************************************)
RejectedComposeChangesNothing ==
    [][\A i \in 1..MaxPending :
          SnapshotReject(i) =>
             /\ state'.layers = state.layers
             /\ state'.editHistory = state.editHistory
             /\ state'.currentHistoryIndex = state.currentHistoryIndex]_vars

RejectedComposeChangesNothingWitness ==
    /\ pending = <<>>
    /\ Len(state.layers) = 2
    /\ Len(state.editHistory) = 1
    /\ state.currentHistoryIndex = 0
    /\ state.uploadedImage # NoImage

(***************************************************************************)
(* C21: when a call to the AI collaborator fails, the failure handler sets *)
(* status to error and errorMessage to the service's message, starts no    *)
(* new call, and leaves the layer stack, the active layer, the history     *)
(* timeline and currentHistoryIndex as they were.                          *)
(***************************************************************************)
AICallFails ==
    \E i \in 1..MaxTasks, message \in ServiceMessages :
       StyleFailed(i, message) \/ AIActionFailed(i, message)

ServiceErrorLeavesEditor ==
    [][AICallFails =>
          /\ state'.status = "error"
          /\ state'.errorMessage \in ServiceMessages
          /\ Len(tasks') = Len(tasks) - 1
          /\ state'.layers = state.layers
          /\ state'.activeLayerId = state.activeLayerId
          /\ state'.editHistory = state.editHistory
          /\ state'.currentHistoryIndex = state.currentHistoryIndex]_vars

ServiceErrorLeavesEditorWitness ==
    /\ state.status = "error"
    /\ state.errorMessage \in ServiceMessages
    /\ tasks = <<>>
    /\ Len(state.layers) = 2
    /\ state.activeLayerId # NoLayerId
    /\ Len(state.editHistory) = 1

(***************************************************************************)
(* C22: when the compose of a snapshot resolves, the timeline becomes its  *)
(* entries up to and including currentHistoryIndex followed by one new     *)
(* entry, whose image is the composite and whose layers equal the live     *)
(* stack; currentHistoryIndex becomes the index of that entry, the last.   *)
(***************************************************************************)
SnapshotTruncatesAndAppends ==
    [][\A i \in 1..MaxPending :
          SnapshotResolve(i) =>
             LET kept == state.currentHistoryIndex + 1
             IN  /\ Len(state'.editHistory) = kept + 1
                 /\ \A j \in 1..kept : state'.editHistory[j] = state.editHistory[j]
                 /\ state'.editHistory[kept + 1].layers = state.layers
                 /\ state'.editHistory[kept + 1].image = pending[i]
                 /\ state'.currentHistoryIndex = Len(state'.editHistory) - 1
                 /\ state'.layers = state.layers]_vars

SnapshotTruncatesAndAppendsWitness ==
    /\ Len(state.editHistory) = 2
    /\ state.currentHistoryIndex = 1
    /\ state.editHistory[2].label = "Action"
    /\ state.editHistory[2].layers = state.layers
    /\ Len(state.editHistory[1].layers) < Len(state.layers)
    /\ Len(state.editHistory[2].image[2]) < Len(state.layers)

(***************************************************************************)
(* C23: handleUndo at currentHistoryIndex 0 changes neither the stack, the *)
(* timeline nor the index; at a higher index it lowers the index by one,   *)
(* leaves the timeline alone and makes the live stack equal to the layers  *)
(* of the entry at the new index.                                          *)
(***************************************************************************)
UndoStepsBack ==
    /\ [](state.currentHistoryIndex = 0 => Undone(state) = state)
    /\ [][handleUndo =>
             /\ state'.currentHistoryIndex = state.currentHistoryIndex - 1
             /\ state'.editHistory = state.editHistory
             /\ state'.layers =
                   state.editHistory[state'.currentHistoryIndex + 1].layers]_vars

UndoStepsBackWitness ==
    /\ state.currentHistoryIndex = 0
    /\ Len(state.editHistory) = 3
    /\ state.layers = state.editHistory[1].layers
    /\ state.editHistory[2].layers # state.layers

(***************************************************************************)
(* C24: handleRedo at the last index changes neither the stack, the        *)
(* timeline nor the index; below it, it raises the index by one, leaves    *)
(* the timeline alone and makes the live stack equal to the layers of the  *)
(* entry at the new index.                                                 *)
(***************************************************************************)
RedoStepsForward ==
    /\ [](state.currentHistoryIndex = Len(state.editHistory) - 1
             => Redone(state) = state)
    /\ [][handleRedo =>
             /\ state'.currentHistoryIndex = state.currentHistoryIndex + 1
             /\ state'.editHistory = state.editHistory
             /\ state'.layers =
                   state.editHistory[state'.currentHistoryIndex + 1].layers]_vars

RedoStepsForwardWitness ==
    /\ state.currentHistoryIndex = 2
    /\ Len(state.editHistory) = 3
    /\ state.layers = state.editHistory[3].layers
    /\ state.editHistory[2].layers # state.layers
    /\ state.resultImage = NoImage

(***************************************************************************)
(* C26: handleReorderLayer(from, to) does nothing when to is outside       *)
(* [0, length - 1]; for from and to inside the stack the result has the    *)
(* same length, holds at index to the layer that was at index from, and    *)
(* holds the other layers in the order they had.                           *)
(***************************************************************************)
Without(s, i) == [j \in 1..(Len(s) - 1) |-> IF j < i THEN s[j] ELSE s[j + 1]]

ReorderMovesOneLayer ==
    /\ [](\A fromIndex \in 0..(Len(state.layers) - 1) :
             \A toIndex \in {-1, Len(state.layers)} :
                LayersReordered(state.layers, fromIndex, toIndex) = state.layers)
    /\ [](\A fromIndex, toIndex \in 0..(Len(state.layers) - 1) :
             LET moved == LayersReordered(state.layers, fromIndex, toIndex)
             IN  /\ Len(moved) = Len(state.layers)
                 /\ moved[toIndex + 1] = state.layers[fromIndex + 1]
                 /\ Without(moved, toIndex + 1) = Without(state.layers, fromIndex + 1))
    /\ [][\A fromIndex \in 0..(Len(state.layers) - 1), toIndex \in -1..MaxLayers :
             handleReorderLayer(fromIndex, toIndex) =>
                /\ toIndex \in 0..(Len(state.layers) - 1)
                /\ state'.layers = LayersReordered(state.layers, fromIndex, toIndex)]_vars

ReorderMovesOneLayerWitness ==
    /\ Len(state.layers) = 2
    /\ state.layers[2].id = <<"layer-base">>
    /\ state.layers[1].type = "text"

(***************************************************************************)
(* C25: at every moment of a compose the layers drawn so far are visible   *)
(* layers of the stack it was given, drawn once each in ascending stack    *)
(* index; when the loop has ended the layers drawn are exactly the visible *)
(* layers with content whose image decoded, and the composite is the one   *)
(* composeLayers is taken to give elsewhere.                               *)
(***************************************************************************)
DrawnAscending(task) ==
    /\ \A j, k \in 1..Len(task.drawn) : j < k => task.drawn[j] < task.drawn[k]
    /\ \A j \in 1..Len(task.drawn) :
          /\ task.drawn[j] \in 1..Len(task.layers)
          /\ task.layers[task.drawn[j]].visible

LoopEnded(task) == task.at > Len(task.order)

ComposeDrawsInStackOrder ==
    \A i \in 1..Len(tasks) :
       tasks[i].kind = "compose" =>
          /\ DrawnAscending(tasks[i])
          /\ LoopEnded(tasks[i]) =>
                /\ {tasks[i].drawn[j] : j \in 1..Len(tasks[i].drawn)}
                      = {k \in 1..Len(tasks[i].layers) :
                            /\ HasContent(tasks[i].layers[k])
                            /\ ~DecodeFails(tasks[i].layers[k])}
                /\ Composite(tasks[i])
                      = composeLayers(tasks[i].layers, tasks[i].width, tasks[i].height)

ComposeDrawsInStackOrderWitness ==
    \E i \in 1..Len(tasks) :
       /\ tasks[i].kind = "compose"
       /\ LoopEnded(tasks[i])
       /\ tasks[i].drawn = <<1, 3>>
       /\ ~tasks[i].layers[2].visible

(***************************************************************************)
(* C25 as stated: when the loop has ended the layers drawn are exactly the *)
(* visible layers of the stack, in ascending stack index.                  *)
(***************************************************************************)
ComposeDrawsEveryVisibleLayer ==
    \A i \in 1..Len(tasks) :
       tasks[i].kind = "compose" =>
          /\ DrawnAscending(tasks[i])
          /\ LoopEnded(tasks[i]) =>
                {tasks[i].drawn[j] : j \in 1..Len(tasks[i].drawn)}
                   = {k \in 1..Len(tasks[i].layers) : tasks[i].layers[k].visible}

(***************************************************************************)
(* C27: updateLayer with an id that no layer has leaves the state as it    *)
(* is; the eye button of a layer changes the visible field of that layer   *)
(* and nothing else: every other layer, the order and the length of the    *)
(* stack stay as they were.                                                *)
(***************************************************************************)
UpdateTouchesOneLayer ==
    /\ [](updateLayer(state, <<"missing">>, [visible |-> FALSE]) = state)
    /\ [][\A i \in 1..MaxLayers :
             PanelToggleVisible(i) =>
                /\ Len(state'.layers) = Len(state.layers)
                /\ state'.layers[i] =
                      [state.layers[i] EXCEPT !.visible = ~state.layers[i].visible]
                /\ \A k \in 1..Len(state.layers) :
                      k # i => state'.layers[k] = state.layers[k]]_vars

(***************************************************************************)
(* C28: a pointer move of a crop drag with anchor (ax, ay) and pointer     *)
(* (cx, cy) sets the selection to x = min(ax, cx), y = min(ay, cy),        *)
(* width = |cx - ax|, height = |cy - ay|; the width and height of a        *)
(* selection are never negative.                                           *)
(***************************************************************************)
Distance(a, c) == IF RatLess(a, c) THEN RatSub(c, a) ELSE RatSub(a, c)

CropSelectionNormalized ==
    /\ [](cropSelection # NoSelection =>
             /\ ~RatLess(cropSelection.width, Num(0))
             /\ ~RatLess(cropSelection.height, Num(0)))
    /\ [][\A p \in CropGrid :
             handleCropMove(p) =>
                /\ cropSelection'.x = RatMin(cropStartRef.x, p.x)
                /\ cropSelection'.y = RatMin(cropStartRef.y, p.y)
                /\ cropSelection'.width = Distance(cropStartRef.x, p.x)
                /\ cropSelection'.height = Distance(cropStartRef.y, p.y)]_vars

CropSelectionNormalizedWitness ==
    /\ isSelectingCrop
    /\ cropStartRef = Point(60, 10)
    /\ cropSelection = [x |-> Num(10), y |-> Num(10),
                        width |-> Num(50), height |-> Num(50)]

(***************************************************************************)
(* C29: a brush commit adds exactly one layer, of type drawing, on top of  *)
(* the stack, with the brush opacity as its opacity and the canvas as its  *)
(* image; every layer that was there stays as it was; the brush canvas is  *)
(* blank afterwards and brush mode is off.                                 *)
(***************************************************************************)
BrushCommitAddsDrawingLayer ==
    [][\A t \in 0..MaxClock :
          applyBrush(t) =>
             /\ Len(state'.layers) = Len(state.layers) + 1
             /\ \A k \in 1..Len(state.layers) : state'.layers[k] = state.layers[k]
             /\ state'.layers[Len(state'.layers)].type = "drawing"
             /\ state'.layers[Len(state'.layers)].opacity = BrushOpacity
             /\ state'.layers[Len(state'.layers)].src[2] = brushCanvas
             /\ brushCanvas' = 0
             /\ ~showBrushTools']_vars

BrushCommitAddsDrawingLayerWitness ==
    /\ Len(state.layers) = 3
    /\ state.layers[3].type = "drawing"
    /\ state.layers[3].src[2] = MaxStrokes
    /\ state.layers[2].type = "text"
    /\ ~showBrushTools
    /\ brushCanvas = 0

(***************************************************************************)
(* C30: a pointer move changes the pan only when neither the brush nor the *)
(* crop tool is on, the zoom is at least 1 and a drag of the background is *)
(* under way; the pan is then the pointer position minus the offset taken  *)
(* at pointer-down (the pan at pointer-down plus the screen delta, not     *)
(* divided by the zoom); a pointer-down at zoom below 1 starts no drag.    *)
(***************************************************************************)
PanAllowed ==
    /\ ~(showBrushTools \/ showCropTools)
    /\ ~RatLess(zoom, Num(1))
    /\ isDragging

PanFollowsPointerAtZoomOne ==
    [][/\ \A client \in PanPointers :
             handleMouseDown(client) =>
                IF RatLess(zoom, Num(1)) THEN ~isDragging'
                ELSE isDragging' =>
                        dragStart' = [x |-> RatSub(client.x, pan.x),
                                      y |-> RatSub(client.y, pan.y)]
       /\ \A movement \in Movements, client \in PanPointers :
             handleMouseMove(movement, client) =>
                IF PanAllowed
                THEN pan' = [x |-> RatSub(client.x, dragStart.x),
                             y |-> RatSub(client.y, dragStart.y)]
                ELSE pan' = pan]_vars

(***************************************************************************)
(* C31: in composeLayers a rotated image or drawing layer is turned about  *)
(* the centre of its box, (x + w/2, y + h/2) with w and h the explicit     *)
(* width and height if present, else the natural size of the source, each  *)
(* times scale; a rotated text layer is turned about its anchor (x, y);    *)
(* for a text layer and an image layer with the same x, y, width, height   *)
(* and rotation the two pivots differ.  A layer is turned about P when the *)
(* point that lies at P + v without rotation lies at P + R(v) with it.     *)
(***************************************************************************)
Turned(call, l, q) ==
    TransformPoint(call.transform,
                   [x |-> RatAdd(call.at.x, RatSub(q.x, l.x)),
                    y |-> RatAdd(call.at.y, RatSub(q.y, l.y))])

TurnedAbout(call, l, pivot) ==
    \A v \in {Point(0, 0), Point(1, 0), Point(0, 1)} :
        Turned(call, l, [x |-> RatAdd(pivot.x, v.x), y |-> RatAdd(pivot.y, v.y)])
            = [x |-> RatAdd(pivot.x,
                            RatSub(RatMul(Num(Cos(l.rotation)), v.x),
                                   RatMul(Num(Sin(l.rotation)), v.y))),
               y |-> RatAdd(pivot.y,
                            RatAdd(RatMul(Num(Sin(l.rotation)), v.x),
                                   RatMul(Num(Cos(l.rotation)), v.y)))]

BoxCentre(l) ==
    LET w == RatMul(Num(IF "width" \in DOMAIN l THEN l.width
                        ELSE ImageSize(l.src).w), l.scale)
        h == RatMul(Num(IF "height" \in DOMAIN l THEN l.height
                        ELSE ImageSize(l.src).h), l.scale)
    IN  [x |-> RatAdd(l.x, RatDiv(w, Num(2))), y |-> RatAdd(l.y, RatDiv(h, Num(2)))]

Anchor(l) == [x |-> l.x, y |-> l.y]

SameFrame(t, m) ==
    /\ t.x = m.x /\ t.y = m.y /\ t.rotation = m.rotation
    /\ ("width" \in DOMAIN t) = ("width" \in DOMAIN m)
    /\ "width" \in DOMAIN t => t.width = m.width /\ t.height = m.height

RotationPivots ==
    \A i \in 1..Len(tasks) :
        tasks[i].kind = "compose" =>
            LET task == tasks[i]
                calls == CanvasCalls(task)
                layer(j) == task.layers[task.drawn[j]]
            IN  /\ \A j \in 1..Len(calls) :
                       layer(j).rotation # 0 =>
                          IF layer(j).type = "text"
                          THEN /\ calls[j].call = "fillText"
                               /\ TurnedAbout(calls[j], layer(j), Anchor(layer(j)))
                          ELSE /\ calls[j].call = "drawImage"
                               /\ TurnedAbout(calls[j], layer(j), BoxCentre(layer(j)))
                               /\ ~TurnedAbout(calls[j], layer(j), Anchor(layer(j)))
                /\ \A j, k \in 1..Len(calls) :
                       /\ layer(j).type = "text" /\ layer(k).type # "text"
                       /\ layer(j).rotation # 0
                       /\ SameFrame(layer(j), layer(k))
                       => /\ BoxCentre(layer(k)) # Anchor(layer(j))
                          /\ ~TurnedAbout(calls[j], layer(j), BoxCentre(layer(k)))

RotationPivotsWitness ==
    /\ Len(tasks) = 1
    /\ tasks[1].kind = "compose"
    /\ tasks[1].at > Len(tasks[1].order)
    /\ tasks[1].drawn = <<1, 2>>
    /\ tasks[1].layers[1].type = "text"
    /\ tasks[1].layers[2].type = "image"
    /\ tasks[1].layers[1].rotation = 90
    /\ "width" \in DOMAIN tasks[1].layers[1]
    /\ tasks[1].layers[2].scale = Rat(1, 2)
    /\ SameFrame(tasks[1].layers[1], tasks[1].layers[2])
    /\ CanvasCalls(tasks[1])[2].transform
           = [a |-> Num(0), b |-> Num(1), c |-> Num(-1), d |-> Num(0),
              e |-> Num(205), f |-> Num(-45)]

(***************************************************************************)
(* C32: generateImage at 'high' resolution calls the Imagen model first    *)
(* and, when that call fails or returns no image, calls the Flash image    *)
(* model; it throws only when the Flash generation also fails or returns   *)
(* no image; at 'low' and 'medium' the Imagen model is never called.       *)
(***************************************************************************)
ModelsCalled(task) == [k \in 1..Len(task.calls) |-> task.calls[k].model]

ImagenThenFlash ==
    \A i \in 1..Len(tasks) :
        tasks[i].kind = "generateImage" =>
            LET task == tasks[i]
                models == ModelsCalled(task)
                answered == Len(task.answers)
            IN  /\ IF task.resolution = "high"
                   THEN /\ models[1] = Imagen
                        /\ answered >= 1 =>
                              IF HasImage(task.answers[1])
                              THEN models = <<Imagen>> /\ task.at = "returned"
                              ELSE models = <<Imagen, FlashImage>>
                   ELSE models = <<FlashImage>>
                /\ task.at = "thrown" <=>
                      /\ answered = Len(models)
                      /\ models[answered] = FlashImage
                      /\ ~HasImage(task.answers[answered])
                /\ task.at = "returned" <=>
                      /\ answered = Len(models)
                      /\ HasImage(task.answers[answered])

ImagenThenFlashWitness ==
    /\ Len(tasks) = 1
    /\ tasks[1].kind = "generateImage"
    /\ tasks[1].resolution = "high"
    /\ ModelsCalled(tasks[1]) = <<Imagen, FlashImage>>
    /\ tasks[1].answers = <<[error |-> "quota"], [bytes |-> ""]>>
    /\ tasks[1].at = "thrown"
    /\ tasks[1].outcome = NoImageMessage

(***************************************************************************)
(* C33: the flattened preview image of every history entry is the          *)
(* composite of exactly the layer stack stored in the same entry; for the  *)
(* seed entry it is the uploaded base image.                               *)
(***************************************************************************)
PreviewOf(entry) ==
    IF entry.label = "Original Upload"
    THEN entry.image = entry.layers[1].src
    ELSE /\ entry.image[1] = "composite"
         /\ entry.image[2] = SelectSeq(entry.layers, Drawn)

PreviewMatchesStoredLayers ==
    \A k \in 1..Len(state.editHistory) : PreviewOf(state.editHistory[k])

(***************************************************************************)
(* C34: whenever no snapshot compose is in flight and the timeline is not  *)
(* empty, the live layer stack equals, field by field, the layers stored   *)
(* in the history entry at currentHistoryIndex.                            *)
(***************************************************************************)
LiveStackIsCurrentEntry ==
    pending = <<>> /\ Len(state.editHistory) > 0 =>
        /\ state.currentHistoryIndex + 1 \in 1..Len(state.editHistory)
        /\ state.layers = state.editHistory[state.currentHistoryIndex + 1].layers

(***************************************************************************)
(* C35: whenever the live layer stack is not empty the history timeline is *)
(* not empty (currentHistoryIndex >= 0), whatever mode changes, results    *)
(* kept as a layer, uploads and deletes came before.                       *)
(***************************************************************************)
StackHasTimeline ==
    Len(state.layers) > 0 =>
        Len(state.editHistory) > 0 /\ state.currentHistoryIndex >= 0

(***************************************************************************)
(* C36: after a switch to GENERATE mode the timeline stays empty           *)
(* (editHistory empty, currentHistoryIndex = -1) until the next upload of  *)
(* a base image, also when a snapshot compose was in flight at the moment  *)
(* of the switch.  Only the switch clears uploadedImage and only an upload *)
(* sets it again.                                                          *)
(***************************************************************************)
TimelineEmptyUntilUpload ==
    state.uploadedImage = NoImage =>
        state.editHistory = <<>> /\ state.currentHistoryIndex = -1

(***************************************************************************)
(* C37: applying an adjustment changes only the src of the base layer (the *)
(* layer created by the upload, id 'layer-base'): every other layer keeps  *)
(* all its fields, its src included, whatever reorders and deletes came    *)
(* before.                                                                 *)
(***************************************************************************)
ExceptSrc(l) == [k \in DOMAIN l \ {"src"} |-> l[k]]

AdjustChangesOnlyBaseSrc ==
    [][\A i \in 1..MaxTasks :
          AdjustResolved(i) =>
             /\ Len(state'.layers) = Len(state.layers)
             /\ \A k \in 1..Len(state.layers) :
                   /\ DOMAIN state'.layers[k] = DOMAIN state.layers[k]
                   /\ ExceptSrc(state'.layers[k]) = ExceptSrc(state.layers[k])
                   /\ state.layers[k].id # BaseLayerId =>
                         \A f \in DOMAIN state.layers[k] :
                            state'.layers[k][f] = state.layers[k][f]]_vars

(***************************************************************************)
(* C38: a locked layer is never removed from the stack by a delete gesture *)
(* (Delete or Backspace on the active layer, or the panel's delete         *)
(* button); in particular the locked base layer survives a Delete key      *)
(* press right after the upload.                                           *)
(***************************************************************************)
LockedLayersSurviveDelete ==
    [][KeyDelete \/ PanelDeleteLayer =>
          \A k \in 1..Len(state.layers) :
             state.layers[k].locked =>
                \E j \in 1..Len(state'.layers) : state'.layers[j] = state.layers[k]]_vars

(***************************************************************************)
(* C39: whenever status becomes 'loading' it eventually becomes 'idle',    *)
(* 'success' or 'error', given that every awaited external call eventually *)
(* resolves or rejects; in every mode, with or without an uploaded image.  *)
(***************************************************************************)
LoadingEnds ==
    (state.status = "loading") ~> (state.status \in {"idle", "success", "error"})

====
